---- MODULE Spec2Model ----
(***************************************************************************)
(* AG-UI event streaming of the recipe demo: the server's run loop         *)
(* (backend/agents/recipe_agent.py), the endpoints that own the per-thread *)
(* agents (backend/main.py), the SSE client (frontend/recipe_app/          *)
(* ag_ui_client.py) and the client reducer (frontend/recipe_app/state.py). *)
(*                                                                         *)
(* Text is a sequence of tokens, so that concatenation of streamed         *)
(* fragments is \o and JSON decoding is a function of the whole buffer.    *)
(* Event timestamps are wall-clock values no handler acts on; the server's *)
(* events are modelled without them.                                       *)
(***************************************************************************)
EXTENDS Integers, Sequences, FiniteSets, TLC

VARIABLES
    agents,     \* main.py `agents`: thread id -> RecipeAgent.state
    runs,       \* one record per RecipeAgent.run generator (its locals, its
                \* position and the events it has yielded so far)
    chunks,     \* number of model chunks delivered so far (bounded)
    resets,     \* number of reset requests served so far (bounded)
    ui,         \* state.py RecipeState: the fields of the client reducer
    sse,        \* the AGUIClient.run generator of the current send_message:
                \* its position, the lines it has read, the events it yielded
    sends,      \* number of messages sent by the client so far (bounded)
    lines       \* number of lines delivered to the client so far (bounded)

serverVars == <<agents, runs, chunks, resets>>
clientVars == <<ui, sse, sends, lines>>
vars == <<agents, runs, chunks, resets, ui, sse, sends, lines>>

(***************************************************************************)
(* Bounds of the model.                                                    *)
(***************************************************************************)
MaxRuns == 2          \* run requests, specification SpecThreads
MaxThreadChunks == 2  \* model chunks over all runs, specification SpecThreads
MaxChunks == 3        \* model chunks of the run, specification Spec
MaxResets == 1        \* reset requests

Threads == {"t1", "t2"}
RunIds == 1..MaxRuns

(***************************************************************************)
(* JSON text.  A text is a sequence of tokens: the braces and brackets,    *)
(* one token per object member ("key": value), one per array element, and  *)
(* one for a scalar.  json.loads accepts exactly an object, an array or a  *)
(* scalar and fails (JSONDecodeError) on every other token sequence, the   *)
(* empty one included.                                                     *)
(***************************************************************************)
LBrace == [t |-> "{"]
RBrace == [t |-> "}"]
LBracket == [t |-> "["]
RBracket == [t |-> "]"]
Member(k, v) == [t |-> "member", k |-> k, v |-> v]
Element(v) == [t |-> "element", v |-> v]
Scalar(v) == [t |-> "scalar", v |-> v]

Inner(s) == SubSeq(s, 2, Len(s) - 1)

Enclosed(s, open, close, inner) ==
    /\ Len(s) >= 2
    /\ s[1].t = open
    /\ s[Len(s)].t = close
    /\ \A i \in 2..(Len(s) - 1) : s[i].t = inner

\* A JSON object with a repeated key keeps the last value (Python dict).
ObjectOf(ms) ==
    [k \in {ms[i].k : i \in DOMAIN ms} |->
        ms[CHOOSE i \in DOMAIN ms :
              /\ ms[i].k = k
              /\ \A j \in DOMAIN ms : ms[j].k = k => j <= i].v]

JsonLoads(s) ==
    IF Enclosed(s, "{", "}", "member")
    THEN [ok |-> TRUE, kind |-> "object", value |-> ObjectOf(Inner(s))]
    ELSE IF Enclosed(s, "[", "]", "element")
    THEN [ok |-> TRUE, kind |-> "array",
          value |-> [i \in DOMAIN Inner(s) |-> Inner(s)[i].v]]
    ELSE IF Len(s) = 1 /\ s[1].t = "scalar"
    THEN [ok |-> TRUE, kind |-> "scalar", value |-> s[1].v]
    ELSE [ok |-> FALSE]

\* dict.get(key, default)
Get(d, k, default) == IF k \in DOMAIN d THEN d[k] ELSE default

(***************************************************************************)
(* The server's document (recipe_agent.py, Recipe / RecipeState).          *)
(***************************************************************************)
DefaultServings == 4

EmptyRecipe ==
    [title |-> "", description |-> "", ingredients |-> <<>>,
     instructions |-> <<>>, prep_time |-> "", cook_time |-> "",
     servings |-> DefaultServings]

NewRecipeState == [recipe |-> EmptyRecipe, messages |-> <<>>, is_generating |-> FALSE]

IngredientToDict(i) == [name |-> i.name, quantity |-> i.quantity, unit |-> i.unit]

RecipeToDict(r) ==
    [title |-> r.title, description |-> r.description,
     ingredients |-> [i \in DOMAIN r.ingredients |-> IngredientToDict(r.ingredients[i])],
     instructions |-> r.instructions, prep_time |-> r.prep_time,
     cook_time |-> r.cook_time, servings |-> r.servings]

StateToDict(s) ==
    [recipe |-> RecipeToDict(s.recipe), messages |-> s.messages,
     is_generating |-> s.is_generating]

(***************************************************************************)
(* RecipeAgent._handle_tool_call.  `parsed` is what json.loads returned.   *)
(* A tool argument is a JSON value and carries its kind where the handler  *)
(* depends on it: the handler calls .get on the arguments and on every     *)
(* ingredient, and iterates the ingredients.                               *)
(***************************************************************************)
EmptyList == [kind |-> "array", value |-> <<>>]

IngredientOf(ing) ==
    [name |-> Get(ing.value, "name", ""),
     quantity |-> Get(ing.value, "quantity", ""),
     unit |-> Get(ing.value, "unit", "")]

\* The handler raises (AttributeError, TypeError) while it builds the Recipe,
\* before self.state.recipe is assigned: arguments that are no dict, an
\* ingredients value that is no list, an ingredient that is no dict.  A tool
\* of another name never touches its arguments.
HandleToolCallRaises(tool_name, parsed) ==
    /\ tool_name = "update_recipe"
    /\ \/ parsed.kind # "object"
       \/ LET ings == Get(parsed.value, "ingredients", EmptyList)
          IN  \/ ings.kind # "array"
              \/ \E i \in DOMAIN ings.value : ings.value[i].kind # "object"

\* A handler that would keep the old value of every field the arguments leave
\* out: the behaviour C9 rules out.
HandleToolCallRecipe_Merge(old, arguments) ==
    LET ings == Get(arguments, "ingredients", EmptyList).value
    IN  [title |-> Get(arguments, "title", old.title),
         description |-> Get(arguments, "description", old.description),
         ingredients |->
            IF "ingredients" \in DOMAIN arguments
            THEN [i \in DOMAIN ings |-> IngredientOf(ings[i])]
            ELSE old.ingredients,
         instructions |-> Get(arguments, "instructions", old.instructions),
         prep_time |-> Get(arguments, "prep_time", old.prep_time),
         cook_time |-> Get(arguments, "cook_time", old.cook_time),
         servings |-> Get(arguments, "servings", old.servings)]

\* The Recipe assigned to self.state.recipe; `old` is the recipe it replaces.
HandleToolCallRecipe(old, arguments) ==
    LET ings == Get(arguments, "ingredients", EmptyList).value
    IN  [title |-> Get(arguments, "title", ""),
         description |-> Get(arguments, "description", ""),
         ingredients |-> [i \in DOMAIN ings |-> IngredientOf(ings[i])],
         instructions |-> Get(arguments, "instructions", <<>>),
         prep_time |-> Get(arguments, "prep_time", ""),
         cook_time |-> Get(arguments, "cook_time", ""),
         servings |-> Get(arguments, "servings", DefaultServings)]

\* A handler that would answer success for a tool it does not know.
HandleToolCallResult_Ok(tool_name) ==
    [success |-> TRUE, message |-> <<"Receta actualizada correctamente">>]

HandleToolCallResult(tool_name) ==
    IF tool_name = "update_recipe"
    THEN [success |-> TRUE, message |-> <<"Receta actualizada correctamente">>]
    ELSE [error |-> <<"Unknown tool: ", tool_name>>]

InvalidJsonResult == [error |-> <<"Invalid JSON in tool arguments">>]

(***************************************************************************)
(* The model stream: what chat.completions.create can deliver.  A chunk    *)
(* has no choices, or a delta with text content (<<>> when absent) and     *)
(* tool-call fragments (index, name "" when absent, arguments <<>> when    *)
(* absent).  tc.id is stored by the run loop and never read; it is left    *)
(* out.                                                                    *)
(***************************************************************************)
Fragment(index, name, arguments) ==
    [index |-> index, name |-> name, arguments |-> arguments]

Chunk(content, tool_calls) ==
    [choices |-> TRUE, content |-> content, tool_calls |-> tool_calls]

NoChoices == [choices |-> FALSE, content |-> <<>>, tool_calls |-> <<>>]

IngredientArg(fields) == [kind |-> "object", value |-> fields]

ArgsOpenTitle == <<LBrace, Member("title", "Pasta"), Member("prep_time", "10 min")>>
ArgsIngredientsClose ==
    <<Member("ingredients",
             [kind |-> "array",
              value |-> <<IngredientArg([name |-> "A", quantity |-> "1", unit |-> "kg"]),
                          IngredientArg([name |-> "B"])>>]),
      RBrace>>
ArgsSoup == <<LBrace, Member("title", "Soup"), Member("servings", 2), RBrace>>
ArgsEmptyObject == <<LBrace, RBrace>>
ArgsArray == <<LBracket, RBracket>>
ArgsNullIngredients ==
    <<LBrace, Member("title", "Stew"), Member("ingredients", [kind |-> "null"]), RBrace>>

ModelChunks ==
    { Chunk(<<"Hola">>, <<>>),
      NoChoices,
      Chunk(<<>>, <<Fragment(0, "update_recipe", ArgsOpenTitle)>>),
      Chunk(<<>>, <<Fragment(0, "", ArgsIngredientsClose)>>),
      Chunk(<<>>, <<Fragment(0, "update_recipe", ArgsArray)>>),
      Chunk(<<>>, <<Fragment(0, "update_recipe", ArgsNullIngredients)>>),
      Chunk(<<>>, <<Fragment(1, "other_tool", ArgsEmptyObject)>>),
      Chunk(<<>>, <<Fragment(1, "update_recipe", ArgsSoup)>>),
      Chunk(<<"listo">>, <<Fragment(0, "update_recipe", ArgsEmptyObject),
                           Fragment(1, "", <<RBrace>>)>>) }

ArgsPasta == ArgsOpenTitle \o ArgsIngredientsClose

\* The chunks of specification SpecThreads, where runs interleave.
ThreadChunks ==
    { Chunk(<<"Hola">>, <<>>),
      Chunk(<<>>, <<Fragment(0, "update_recipe", ArgsPasta)>>),
      Chunk(<<>>, <<Fragment(0, "update_recipe", ArgsArray)>>),
      Chunk(<<>>, <<Fragment(0, "other_tool", <<RBrace>>)>>) }

HasIndex(data, index) == \E i \in DOMAIN data : data[i].index = index

\* An accumulator that would keep the invocations sorted by index.
ApplyFragment_Sorted(data, f) ==
    LET Before(e) == e.index < f.index
        After(e) == e.index > f.index
        d == IF HasIndex(data, f.index)
             THEN data
             ELSE SelectSeq(data, Before)
                  \o <<[index |-> f.index, name |-> "", arguments |-> <<>>]>>
                  \o SelectSeq(data, After)
    IN  [i \in DOMAIN d |->
            IF d[i].index = f.index
            THEN [index |-> f.index,
                  name |-> IF f.name # "" THEN f.name ELSE d[i].name,
                  arguments |-> d[i].arguments \o f.arguments]
            ELSE d[i]]

\* An accumulator that would keep only the last fragment of each index.
ApplyFragment_Overwrites(data, f) ==
    LET d == IF HasIndex(data, f.index)
             THEN data
             ELSE Append(data, [index |-> f.index, name |-> "", arguments |-> <<>>])
    IN  [i \in DOMAIN d |->
            IF d[i].index = f.index
            THEN [index |-> f.index,
                  name |-> IF f.name # "" THEN f.name ELSE d[i].name,
                  arguments |-> f.arguments]
            ELSE d[i]]

\* One tool-call fragment routed by tc.index into tool_calls_data, a dict
\* that keeps the order in which the indices first appeared.
ApplyFragment(data, f) ==
    LET d == IF HasIndex(data, f.index)
             THEN data
             ELSE Append(data, [index |-> f.index, name |-> "", arguments |-> <<>>])
    IN  [i \in DOMAIN d |->
            IF d[i].index = f.index
            THEN [index |-> f.index,
                  name |-> IF f.name # "" THEN f.name ELSE d[i].name,
                  arguments |-> d[i].arguments \o f.arguments]
            ELSE d[i]]

RECURSIVE ApplyFragments(_, _)
ApplyFragments(data, fs) ==
    IF fs = <<>> THEN data
    ELSE ApplyFragments(ApplyFragment(data, Head(fs)), Tail(fs))

(***************************************************************************)
(* Requests to POST /shared_state (main.py, RunRequest).  The client sends *)
(* one user message and its copy of the document; the endpoint takes the   *)
(* last message whose role is "user".                                      *)
(***************************************************************************)
NoState == [kind |-> "null"]

ClientSnapshot ==
    [kind |-> "object",
     value |-> [recipe |-> [title |-> "Pasta", ingredients |-> <<[name |-> "A"]>>]]]

UserMsg(content) == [role |-> "user", content |-> content]
AssistantMsg(content) == [role |-> "assistant", content |-> content]

RequestBodies ==
    { [messages |-> <<UserMsg(<<"u1">>)>>, state |-> NoState],
      [messages |-> <<UserMsg(<<"u1">>), AssistantMsg(<<"a">>), UserMsg(<<"u2">>)>>,
       state |-> ClientSnapshot],
      [messages |-> <<AssistantMsg(<<"a">>)>>, state |-> NoState] }

IsUser(m) == m.role = "user"

(***************************************************************************)
(* The events RecipeAgent.run yields.                                      *)
(***************************************************************************)
RunStarted(run_id) == [type |-> "RUN_STARTED", runId |-> run_id]
RunFinished(run_id) == [type |-> "RUN_FINISHED", runId |-> run_id]
RunError(error) == [type |-> "RUN_ERROR", error |-> error]
StateSnapshot(state) == [type |-> "STATE_SNAPSHOT", state |-> StateToDict(state)]
TextMessageStart(message_id) ==
    [type |-> "TEXT_MESSAGE_START", messageId |-> message_id, role |-> "assistant"]
TextMessageContent(message_id, content) ==
    [type |-> "TEXT_MESSAGE_CONTENT", messageId |-> message_id, content |-> content]
TextMessageEnd(message_id) == [type |-> "TEXT_MESSAGE_END", messageId |-> message_id]
ToolCallStart(tool_call_id, name) ==
    [type |-> "TOOL_CALL_START", toolCallId |-> tool_call_id, toolName |-> name]
ToolCallEnd(tool_call_id, result) ==
    [type |-> "TOOL_CALL_END", toolCallId |-> tool_call_id, result |-> result]
StateDelta(recipe) ==
    [type |-> "STATE_DELTA",
     delta |-> <<[op |-> "replace", path |-> "/recipe", value |-> RecipeToDict(recipe)]>>]

(***************************************************************************)
(* State.  A run record holds the locals of one RecipeAgent.run generator; *)
(* pc is the yield (or the call) at which the generator is suspended.      *)
(***************************************************************************)
\* uuid.uuid4(): the n-th value drawn by run r.  Values drawn at different
\* places are different values.
Uuid4(r, n) == <<r, n>>
NoUuid == <<>>

(***************************************************************************)
(* The client's document (state.py, Ingredient / Recipe / ChatMessage).    *)
(***************************************************************************)
DefaultIcon == "U+1F37D"

ClientRecipe ==
    [title |-> "", skill_level |-> "Intermedio", special_preferences |-> <<>>,
     cooking_time |-> "30 min", ingredients |-> <<>>, instructions |-> <<>>]

ChatMessage(role, content) == [role |-> role, content |-> content]

\* str.lower() on the skill levels that occur.
Lower(s) ==
    CASE s = "Beginner" -> "beginner"
      [] s = "Intermediate" -> "intermediate"
      [] s = "Advanced" -> "advanced"
      [] s = "Principiante" -> "principiante"
      [] s = "Intermedio" -> "intermedio"
      [] s = "Avanzado" -> "avanzado"
      [] OTHER -> s

SkillMapping ==
    [beginner |-> "Principiante", intermediate |-> "Intermedio",
     advanced |-> "Avanzado", principiante |-> "Principiante",
     intermedio |-> "Intermedio", avanzado |-> "Avanzado"]

\* state.py _map_skill_level
MapSkillLevel(skill) ==
    IF skill # "" THEN Get(SkillMapping, Lower(skill), "Intermedio") ELSE "Intermedio"

ClientIngredient(ing) ==
    [icon |-> Get(ing, "icon", DefaultIcon), name |-> Get(ing, "name", ""),
     amount |-> Get(ing, "amount", "")]

\* The Recipe(...) the reducer builds from a recipe dict of an event.
RecipeOf(recipe_data) ==
    LET ings == Get(recipe_data, "ingredients", <<>>)
    IN  [title |-> Get(recipe_data, "title", ""),
         skill_level |-> MapSkillLevel(Get(recipe_data, "skill_level", "Intermediate")),
         special_preferences |-> Get(recipe_data, "special_preferences", <<>>),
         cooking_time |-> Get(recipe_data, "cooking_time", "30 min"),
         ingredients |-> [i \in DOMAIN ings |-> ClientIngredient(ings[i])],
         instructions |-> Get(recipe_data, "instructions", <<>>)]

\* bool(d) of a dict
Truthy(d) == DOMAIN d # {}

\* A reducer that would keep the old value of every field the value leaves
\* out: the behaviour C8 rules out.
DeltaValue_Merge(recipe, recipe_data) ==
    LET new == RecipeOf(recipe_data)
    IN  [f \in DOMAIN new |-> IF f \in DOMAIN recipe_data THEN new[f] ELSE recipe[f]]

\* The recipe after one operation of a STATE_DELTA whose path is "/recipe"
\* and whose value is truthy.
DeltaValue(recipe, recipe_data) == RecipeOf(recipe_data)

\* The STATE_DELTA branch: `for op in delta`.
RECURSIVE ApplyDelta(_, _)
ApplyDelta(recipe, delta) ==
    IF delta = <<>> THEN recipe
    ELSE LET op == Head(delta)
             recipe_data == Get(op, "value", <<>>)
         IN  ApplyDelta(IF Get(op, "path", "") = "/recipe" /\ Truthy(recipe_data)
                        THEN DeltaValue(recipe, recipe_data)
                        ELSE recipe,
                        Tail(delta))

\* json.dumps(recipe_data, sort_keys=True): equal dicts give equal texts and
\* different dicts different texts.  The initial hash "" is the text of no dict.
NoHash == [dumped |-> FALSE]
ContentHash(recipe_data) == [dumped |-> TRUE, of |-> recipe_data]

\* str(n) of the counts that occur.
Str(n) == CASE n = 0 -> "0" [] n = 1 -> "1" [] n = 2 -> "2" [] OTHER -> "many"

Summary(old_title, new_title, num_ingredients, num_steps) ==
    IF old_title # "" /\ old_title # new_title
    THEN <<"He actualizado la receta a", new_title, Str(num_ingredients), Str(num_steps)>>
    ELSE IF old_title # ""
    THEN <<"He modificado", new_title, Str(num_ingredients), Str(num_steps)>>
    ELSE <<"Listo! He creado", new_title, Str(num_ingredients), Str(num_steps)>>

(***************************************************************************)
(* ag_ui_client.py: AGUIEventType and AGUIEvent.from_dict.  `data` is a    *)
(* decoded JSON object.                                                    *)
(***************************************************************************)
AGUIEventType ==
    {"RUN_STARTED", "RUN_FINISHED", "RUN_ERROR",
     "TEXT_MESSAGE_START", "TEXT_MESSAGE_CONTENT", "TEXT_MESSAGE_END",
     "TOOL_CALL_START", "TOOL_CALL_ARGS", "TOOL_CALL_END",
     "STATE_SNAPSHOT", "STATE_DELTA", "MESSAGES_SNAPSHOT", "RAW", "CUSTOM"}

\* A decoder that would pass an unknown type through: the behaviour C10
\* rules out.
FromDict_KeepsType(data) ==
    [type |-> Get(data, "type", "CUSTOM"), data |-> data,
     timestamp |-> Get(data, "timestamp", "")]

FromDict(data) ==
    LET event_type_str == Get(data, "type", "CUSTOM")
    IN  [type |-> IF event_type_str \in AGUIEventType THEN event_type_str ELSE "CUSTOM",
         data |-> data,
         timestamp |-> Get(data, "timestamp", "")]

(***************************************************************************)
(* The client's state after construction.                                  *)
(***************************************************************************)
InitUi ==
    [messages |-> <<>>, current_input |-> "", recipe |-> ClientRecipe,
     last_recipe_hash |-> NoHash, is_loading |-> FALSE, is_streaming |-> FALSE,
     current_streaming_content |-> <<>>, error_message |-> <<>>]

\* pc: "idle" (no send_message in progress), "sending" (send_message at its
\* first yield) or "reading" (AGUIClient.run suspended in
\* `async for line in response.aiter_lines()`).  raised: the exception that
\* ended the generator, "" when none did.
InitSse ==
    [pc |-> "idle", received |-> <<>>, yielded |-> <<>>, raised |-> "",
     current_message_id |-> NoUuid, current_message_content |-> <<>>]

InitClient ==
    /\ ui = InitUi
    /\ sse = InitSse
    /\ sends = 0
    /\ lines = 0

IdleRun ==
    [pc |-> "idle", thread |-> "", user_message |-> <<>>, req_state |-> NoState,
     run_id |-> NoUuid, message_id |-> NoUuid, full_content |-> <<>>,
     tool_calls_data |-> <<>>, tc |-> 0, tool_call_id |-> NoUuid,
     result |-> [pending |-> TRUE], events |-> <<>>]

InitThreads ==
    /\ agents = <<>>
    /\ runs = [r \in RunIds |-> IdleRun]
    /\ chunks = 0
    /\ resets = 0
    /\ InitClient

Yield(run, event, pc) == [run EXCEPT !.events = Append(@, event), !.pc = pc]

(***************************************************************************)
(* main.py run_shared_state.  The request's state is read and dropped      *)
(* (`if request.state: pass`).  Without a user message the endpoint        *)
(* answers with an error object and no event stream.                       *)
(***************************************************************************)
\* An endpoint that would build a new agent for every request: the behaviour
\* C13 rules out.
RunSharedState_NewAgent(r, thread_id, body) ==
    LET user_messages == SelectSeq(body.messages, IsUser)
    IN  /\ runs[r].pc = "idle"
        /\ \A q \in RunIds : q < r => runs[q].pc # "idle"
        /\ agents' = (thread_id :> NewRecipeState) @@ agents
        /\ runs' = [runs EXCEPT ![r] =
                      IF user_messages = <<>>
                      THEN [@ EXCEPT !.pc = "rejected", !.thread = thread_id,
                                     !.req_state = body.state]
                      ELSE [@ EXCEPT !.pc = "created", !.thread = thread_id,
                                     !.req_state = body.state,
                                     !.user_message =
                                        user_messages[Len(user_messages)].content]]
        /\ UNCHANGED <<chunks, resets, clientVars>>

\* An endpoint that would run the agent on an empty message when the
\* request has no user message.
RunSharedState_EmptyMessage(r, thread_id, body) ==
    LET user_messages == SelectSeq(body.messages, IsUser)
    IN  /\ runs[r].pc = "idle"
        /\ \A q \in RunIds : q < r => runs[q].pc # "idle"
        /\ agents' = IF thread_id \in DOMAIN agents
                     THEN agents
                     ELSE agents @@ (thread_id :> NewRecipeState)
        /\ runs' = [runs EXCEPT ![r] =
                      [@ EXCEPT !.pc = "created", !.thread = thread_id,
                                !.req_state = body.state,
                                !.user_message =
                                   IF user_messages = <<>> THEN <<>>
                                   ELSE user_messages[Len(user_messages)].content]]
        /\ UNCHANGED <<chunks, resets, clientVars>>

RunSharedState(r, thread_id, body) ==
    LET user_messages == SelectSeq(body.messages, IsUser)
    IN  /\ runs[r].pc = "idle"
        /\ \A q \in RunIds : q < r => runs[q].pc # "idle"
        /\ agents' = IF thread_id \in DOMAIN agents
                     THEN agents
                     ELSE agents @@ (thread_id :> NewRecipeState)
        /\ runs' = [runs EXCEPT ![r] =
                      IF user_messages = <<>>
                      THEN [@ EXCEPT !.pc = "rejected", !.thread = thread_id,
                                     !.req_state = body.state]
                      ELSE [@ EXCEPT !.pc = "created", !.thread = thread_id,
                                     !.req_state = body.state,
                                     !.user_message =
                                        user_messages[Len(user_messages)].content]]
        /\ UNCHANGED <<chunks, resets, clientVars>>

\* The answer of reset_thread; known: the thread has an agent.
ResetResponse(known) ==
    [status |-> "ok",
     message |-> IF known THEN "Thread reset" ELSE "Thread not found (nothing to reset)"]

\* A reset that would clear the document and keep the history: the behaviour
\* C11 rules out.
ResetThread_KeepsMessages(thread_id) ==
    /\ resets < MaxResets
    /\ resets' = resets + 1
    /\ agents' = IF thread_id \in DOMAIN agents
                 THEN [agents EXCEPT ![thread_id].recipe = EmptyRecipe]
                 ELSE agents
    /\ UNCHANGED <<runs, chunks, clientVars>>

\* main.py reset_thread / RecipeAgent.reset
ResetThread(thread_id) ==
    /\ resets < MaxResets
    /\ resets' = resets + 1
    /\ agents' = IF thread_id \in DOMAIN agents
                 THEN [agents EXCEPT ![thread_id] = NewRecipeState]
                 ELSE agents
    /\ UNCHANGED <<runs, chunks, clientVars>>

(***************************************************************************)
(* RecipeAgent.run, one action per resumption of the generator.            *)
(***************************************************************************)
\* First resumption: the two uuids are drawn, RUN_STARTED is yielded.
Start(r) ==
    /\ runs[r].pc = "created"
    /\ runs' = [runs EXCEPT ![r] =
                  Yield([@ EXCEPT !.run_id = Uuid4(r, 1), !.message_id = Uuid4(r, 2)],
                        RunStarted(Uuid4(r, 1)), "started")]
    /\ UNCHANGED <<agents, chunks, resets, clientVars>>

\* is_generating, the user message, the initial STATE_SNAPSHOT.
Baseline(r) ==
    LET t == runs[r].thread
        s == [agents[t] EXCEPT !.is_generating = TRUE,
                               !.messages = Append(@, UserMsg(runs[r].user_message))]
    IN  /\ runs[r].pc = "started"
        /\ agents' = [agents EXCEPT ![t] = s]
        /\ runs' = [runs EXCEPT ![r] = Yield(@, StateSnapshot(s), "baseline")]
        /\ UNCHANGED <<chunks, resets, clientVars>>

\* chat.completions.create returned a stream: TEXT_MESSAGE_START.
OpenStream(r) ==
    /\ runs[r].pc = "baseline"
    /\ runs' = [runs EXCEPT ![r] =
                  Yield([@ EXCEPT !.full_content = <<>>, !.tool_calls_data = <<>>],
                        TextMessageStart(runs[r].message_id), "streaming")]
    /\ UNCHANGED <<agents, chunks, resets, clientVars>>

\* chat.completions.create raised: the except clause yields RUN_ERROR.
OpenFails(r) ==
    /\ runs[r].pc = "baseline"
    /\ runs' = [runs EXCEPT ![r] = Yield(@, RunError(<<"completion failed">>), "error")]
    /\ UNCHANGED <<agents, chunks, resets, clientVars>>

\* One chunk of the stream.  Its content, when there is any, is yielded as
\* TEXT_MESSAGE_CONTENT; its tool-call fragments are accumulated when the
\* generator is resumed, before the next chunk is awaited.  Both touch only
\* the generator's locals, so the chunk is one step.
OnChunk(r, chunk, limit) ==
    LET run == runs[r]
        text == IF chunk.choices THEN chunk.content ELSE <<>>
        frags == IF chunk.choices THEN chunk.tool_calls ELSE <<>>
        acc == [run EXCEPT !.full_content = @ \o text,
                           !.tool_calls_data = ApplyFragments(@, frags)]
    IN  /\ run.pc = "streaming"
        /\ chunks < limit
        /\ chunks' = chunks + 1
        /\ runs' = [runs EXCEPT ![r] =
                      IF text # <<>>
                      THEN Yield(acc, TextMessageContent(run.message_id, text), "streaming")
                      ELSE acc]
        /\ UNCHANGED <<agents, resets, clientVars>>

\* The stream ended: TEXT_MESSAGE_END.
StreamEnds(r) ==
    /\ runs[r].pc = "streaming"
    /\ runs' = [runs EXCEPT ![r] =
                  Yield([@ EXCEPT !.tc = 1], TextMessageEnd(runs[r].message_id), "tools")]
    /\ UNCHANGED <<agents, chunks, resets, clientVars>>

\* A run that would report the failure and go on to the tool loop.
StreamFails_GoesOn(r) ==
    /\ runs[r].pc = "streaming"
    /\ runs' = [runs EXCEPT ![r] =
                  Yield([@ EXCEPT !.tc = 1], RunError(<<"stream failed">>), "tools")]
    /\ UNCHANGED <<agents, chunks, resets, clientVars>>

\* The stream raised while a chunk was awaited: RUN_ERROR.
StreamFails(r) ==
    /\ runs[r].pc = "streaming"
    /\ runs' = [runs EXCEPT ![r] = Yield(@, RunError(<<"stream failed">>), "error")]
    /\ UNCHANGED <<agents, chunks, resets, clientVars>>

\* The next entry of tool_calls_data: a fresh tool_call_id, TOOL_CALL_START.
ToolStart(r) ==
    LET run == runs[r]
    IN  /\ run.pc = "tools"
        /\ run.tc <= Len(run.tool_calls_data)
        /\ runs' = [runs EXCEPT ![r] =
                      Yield([@ EXCEPT !.tool_call_id = Uuid4(r, 2 + run.tc)],
                            ToolCallStart(Uuid4(r, 2 + run.tc),
                                          run.tool_calls_data[run.tc].name),
                            "tool")]
        /\ UNCHANGED <<agents, chunks, resets, clientVars>>

\* A run loop without the inner `except json.JSONDecodeError`: the behaviour
\* C4 rules out.
DecodeError_Propagates(run) == Yield(run, RunError(<<"invalid json">>), "error")

\* except json.JSONDecodeError: the result is an error object, and the loop
\* goes on to TOOL_CALL_END.
DecodeError(run) ==
    Yield([run EXCEPT !.result = InvalidJsonResult, !.tc = @ + 1],
          ToolCallEnd(run.tool_call_id, InvalidJsonResult), "tools")

\* json.loads and _handle_tool_call for the started invocation.
ToolExecute(r) ==
    LET run == runs[r]
        t == run.thread
        tc_data == run.tool_calls_data[run.tc]
        parsed == JsonLoads(tc_data.arguments)
        recipe == HandleToolCallRecipe(agents[t].recipe, parsed.value)
    IN  /\ run.pc = "tool"
        /\ IF ~parsed.ok
           THEN /\ runs' = [runs EXCEPT ![r] = DecodeError(run)]
                /\ UNCHANGED agents
           ELSE IF HandleToolCallRaises(tc_data.name, parsed)
           THEN \* any other exception reaches the outer except: RUN_ERROR
                /\ runs' = [runs EXCEPT ![r] =
                              Yield(@, RunError(<<"tool handler raised">>), "error")]
                /\ UNCHANGED agents
           ELSE IF tc_data.name = "update_recipe"
           THEN \* the recipe is replaced and STATE_DELTA yielded
                /\ agents' = [agents EXCEPT ![t].recipe = recipe]
                /\ runs' = [runs EXCEPT ![r] =
                              Yield([@ EXCEPT !.result = HandleToolCallResult(tc_data.name)],
                                    StateDelta(recipe), "delta")]
           ELSE /\ runs' = [runs EXCEPT ![r] =
                              Yield([@ EXCEPT !.result = HandleToolCallResult(tc_data.name),
                                              !.tc = @ + 1],
                                    ToolCallEnd(run.tool_call_id,
                                                HandleToolCallResult(tc_data.name)),
                                    "tools")]
                /\ UNCHANGED agents
        /\ UNCHANGED <<chunks, resets, clientVars>>

\* A tool loop that would not close the invocation: the behaviour C7 rules
\* out.
ToolEnd_NoEvent(r) ==
    /\ runs[r].pc = "delta"
    /\ runs' = [runs EXCEPT ![r] = [@ EXCEPT !.tc = @ + 1, !.pc = "tools"]]
    /\ UNCHANGED <<agents, chunks, resets, clientVars>>

\* Resumed after STATE_DELTA: TOOL_CALL_END.
ToolEnd(r) ==
    LET run == runs[r]
    IN  /\ run.pc = "delta"
        /\ runs' = [runs EXCEPT ![r] =
                      Yield([@ EXCEPT !.tc = @ + 1],
                            ToolCallEnd(run.tool_call_id, run.result), "tools")]
        /\ UNCHANGED <<agents, chunks, resets, clientVars>>

\* A finalization that would not read the document anew: the behaviour C2
\* rules out.
Finalize_StaleSnapshot(r) ==
    LET run == runs[r]
        t == run.thread
        s == [agents[t] EXCEPT
                !.messages = IF run.full_content # <<>>
                             THEN Append(@, AssistantMsg(run.full_content))
                             ELSE @,
                !.is_generating = FALSE]
    IN  /\ run.pc = "tools"
        /\ run.tc > Len(run.tool_calls_data)
        /\ agents' = [agents EXCEPT ![t] = s]
        /\ runs' = [runs EXCEPT ![r] = Yield(@, StateSnapshot(agents[t]), "final")]
        /\ UNCHANGED <<chunks, resets, clientVars>>

\* A finalization that would put the assistant message in the place of the
\* last stored message.
Finalize_ReplacesLast(r) ==
    LET run == runs[r]
        t == run.thread
        s == [agents[t] EXCEPT
                !.messages = IF run.full_content # <<>> /\ @ # <<>>
                             THEN [@ EXCEPT ![Len(@)] = AssistantMsg(run.full_content)]
                             ELSE @,
                !.is_generating = FALSE]
    IN  /\ run.pc = "tools"
        /\ run.tc > Len(run.tool_calls_data)
        /\ agents' = [agents EXCEPT ![t] = s]
        /\ runs' = [runs EXCEPT ![r] = Yield(@, StateSnapshot(s), "final")]
        /\ UNCHANGED <<chunks, resets, clientVars>>

\* No invocation is left: the assistant message is stored when there is
\* text, then the finally clause clears is_generating and yields the final
\* STATE_SNAPSHOT.
Finalize(r) ==
    LET run == runs[r]
        t == run.thread
        s == [agents[t] EXCEPT
                !.messages = IF run.full_content # <<>>
                             THEN Append(@, AssistantMsg(run.full_content))
                             ELSE @,
                !.is_generating = FALSE]
    IN  /\ run.pc = "tools"
        /\ run.tc > Len(run.tool_calls_data)
        /\ agents' = [agents EXCEPT ![t] = s]
        /\ runs' = [runs EXCEPT ![r] = Yield(@, StateSnapshot(s), "final")]
        /\ UNCHANGED <<chunks, resets, clientVars>>

\* An error path that would return without the finalization: the behaviour
\* C1 rules out.
FinalizeAfterError_Return(r) ==
    /\ runs[r].pc = "error"
    /\ runs' = [runs EXCEPT ![r].pc = "done"]
    /\ UNCHANGED <<agents, chunks, resets, clientVars>>

\* A finalization that would discard the document of a failed run.
FinalizeAfterError_Discards(r) ==
    LET t == runs[r].thread
        s == [agents[t] EXCEPT !.is_generating = FALSE, !.recipe = EmptyRecipe]
    IN  /\ runs[r].pc = "error"
        /\ agents' = [agents EXCEPT ![t] = s]
        /\ runs' = [runs EXCEPT ![r] = Yield(@, StateSnapshot(s), "final")]
        /\ UNCHANGED <<chunks, resets, clientVars>>

\* Resumed after RUN_ERROR: the finally clause.
FinalizeAfterError(r) ==
    LET t == runs[r].thread
        s == [agents[t] EXCEPT !.is_generating = FALSE]
    IN  /\ runs[r].pc = "error"
        /\ agents' = [agents EXCEPT ![t] = s]
        /\ runs' = [runs EXCEPT ![r] = Yield(@, StateSnapshot(s), "final")]
        /\ UNCHANGED <<chunks, resets, clientVars>>

\* Resumed after the final STATE_SNAPSHOT: RUN_FINISHED.
Finish(r) ==
    /\ runs[r].pc = "final"
    /\ runs' = [runs EXCEPT ![r] = Yield(@, RunFinished(runs[r].run_id), "finished")]
    /\ UNCHANGED <<agents, chunks, resets, clientVars>>

\* Resumed after RUN_FINISHED: the generator returns (StopAsyncIteration).
Exhaust(r) ==
    /\ runs[r].pc = "finished"
    /\ runs' = [runs EXCEPT ![r].pc = "done"]
    /\ UNCHANGED <<agents, chunks, resets, clientVars>>

NextThreads ==
    \/ \E r \in RunIds, t \in Threads, b \in RequestBodies : RunSharedState(r, t, b)
    \/ \E t \in Threads : ResetThread(t)
    \/ \E r \in RunIds : Start(r)
    \/ \E r \in RunIds : Baseline(r)
    \/ \E r \in RunIds : OpenStream(r)
    \/ \E r \in RunIds : OpenFails(r)
    \/ \E r \in RunIds, c \in ThreadChunks : OnChunk(r, c, MaxThreadChunks)
    \/ \E r \in RunIds : StreamEnds(r)
    \/ \E r \in RunIds : StreamFails(r)
    \/ \E r \in RunIds : ToolStart(r)
    \/ \E r \in RunIds : ToolExecute(r)
    \/ \E r \in RunIds : ToolEnd(r)
    \/ \E r \in RunIds : Finalize(r)
    \/ \E r \in RunIds : FinalizeAfterError(r)
    \/ \E r \in RunIds : Finish(r)
    \/ \E r \in RunIds : Exhaust(r)

SpecThreads == InitThreads /\ [][NextThreads]_vars

(***************************************************************************)
(* Spec: one run on thread t1, with every chunk of ModelChunks; the thread *)
(* is new or has the history and the document of an earlier run, and       *)
(* resets of the thread may arrive at any point of the run.                *)
(***************************************************************************)
PriorRecipe ==
    [title |-> "Pasta", description |-> "", 
     ingredients |-> <<[name |-> "A", quantity |-> "1", unit |-> "kg"],
                       [name |-> "B", quantity |-> "", unit |-> ""]>>,
     instructions |-> <<>>, prep_time |-> "10 min", cook_time |-> "",
     servings |-> DefaultServings]

\* The state of thread t1 after a run of SpecThreads with the chunks "Hola" and
\* update_recipe(ArgsPasta).
PriorAgents ==
    "t1" :> [recipe |-> PriorRecipe,
             messages |-> <<UserMsg(<<"u1">>), AssistantMsg(<<"Hola">>)>>,
             is_generating |-> FALSE]

Init ==
    /\ agents \in {<<>>, PriorAgents}
    /\ runs = [r \in RunIds |-> IdleRun]
    /\ chunks = 0
    /\ resets = 0
    /\ InitClient

Next ==
    \/ \E b \in RequestBodies : RunSharedState(1, "t1", b)
    \/ ResetThread("t1")
    \/ Start(1)
    \/ Baseline(1)
    \/ OpenStream(1)
    \/ OpenFails(1)
    \/ \E c \in ModelChunks : OnChunk(1, c, MaxChunks)
    \/ StreamEnds(1)
    \/ StreamFails(1)
    \/ ToolStart(1)
    \/ ToolExecute(1)
    \/ ToolEnd(1)
    \/ Finalize(1)
    \/ FinalizeAfterError(1)
    \/ Finish(1)
    \/ Exhaust(1)

Spec == Init /\ [][Next]_vars

(***************************************************************************)
(* The event stream on the wire.  main.py event_stream writes one          *)
(* "data: <json.dumps(event)>" line per event and a blank line after it;   *)
(* the client reads the response line by line.  A line is the flag         *)
(* line.startswith("data: ") and the text after the marker.                *)
(***************************************************************************)
MaxLines == 3         \* lines delivered to the client, specification SpecClient
MaxSends == 2         \* messages sent by the client, specification SpecClient

RECURSIVE Members(_, _)
Members(d, ks) ==
    IF ks = {} THEN <<>>
    ELSE LET k == CHOOSE x \in ks : TRUE
         IN  <<Member(k, d[k])>> \o Members(d, ks \ {k})

\* json.dumps of a dict
JsonDumps(d) == <<LBrace>> \o Members(d, DOMAIN d) \o <<RBrace>>

DataLine(body) == [data |-> TRUE, body |-> body]
\* A server that would write the JSON text without the "data: " marker.
EventLine_Bare(event) == [data |-> FALSE, body |-> JsonDumps(event)]

EventLine(event) == DataLine(JsonDumps(event))
BlankLine == [data |-> FALSE, body |-> <<>>]

Delta(ops) == [type |-> "STATE_DELTA", delta |-> ops]
RecipeOp(value) == [op |-> "replace", path |-> "/recipe", value |-> value]

\* A recipe dict in the client's vocabulary, without a title.
StepsValue ==
    [skill_level |-> "Advanced", ingredients |-> <<[name |-> "C"]>>,
     instructions |-> <<"mix">>]
EmptyValue == [k \in {} |-> ""]

FrameLines ==
    { BlankLine,
      DataLine(<<LBrace>>),
      DataLine(<<Scalar(5)>>),
      EventLine(TextMessageStart(Uuid4(1, 2))),
      EventLine(TextMessageContent(Uuid4(1, 2), <<"Hola">>)),
      EventLine(TextMessageEnd(Uuid4(1, 2))),
      EventLine(StateSnapshot(PriorAgents["t1"])),
      EventLine(StateDelta(PriorRecipe)),
      EventLine(Delta(<<RecipeOp(StepsValue)>>)),
      EventLine(RunError(<<"boom">>)),
      EventLine(RunFinished(Uuid4(1, 1))),
      DataLine(JsonDumps([type |-> "FUTURE_EVENT", payload |-> "x", timestamp |-> "t0"])),
      DataLine(JsonDumps([payload |-> "x"])) }

(***************************************************************************)
(* state.py send_message: the branch taken for one event.                  *)
(***************************************************************************)
OnStateSnapshot(u, data) ==
    LET state_data == Get(data, "snapshot", Get(data, "state", EmptyValue))
        recipe_data == Get(state_data, "recipe", EmptyValue)
        new_title == Get(recipe_data, "title", "")
        content_hash == ContentHash(recipe_data)
        is_recipe_changed == content_hash # u.last_recipe_hash
        summary == Summary(u.recipe.title, new_title,
                           Len(Get(recipe_data, "ingredients", <<>>)),
                           Len(Get(recipe_data, "instructions", <<>>)))
    IN  IF new_title = "" THEN u
        ELSE [u EXCEPT
                !.recipe = RecipeOf(recipe_data),
                !.last_recipe_hash = IF is_recipe_changed THEN content_hash ELSE @,
                !.messages = IF is_recipe_changed
                             THEN Append(@, ChatMessage("assistant", summary))
                             ELSE @]

\* A reducer that would keep the buffer of the message before.
OnTextMessageStart_KeepsBuffer(u) == [u EXCEPT !.is_streaming = TRUE]

OnTextMessageStart(u) ==
    [u EXCEPT !.is_streaming = TRUE, !.current_streaming_content = <<>>]

Reduce(u, event) ==
    CASE event.type = "RUN_STARTED" -> [u EXCEPT !.is_loading = TRUE]
      [] event.type = "TEXT_MESSAGE_START" -> OnTextMessageStart(u)
      [] event.type = "TEXT_MESSAGE_CONTENT" ->
            [u EXCEPT !.current_streaming_content = @ \o Get(event.data, "content", <<>>)]
      [] event.type = "TEXT_MESSAGE_END" ->
            [u EXCEPT
                !.messages = IF u.current_streaming_content # <<>>
                             THEN Append(@, ChatMessage("assistant",
                                                        u.current_streaming_content))
                             ELSE @,
                !.is_streaming = FALSE,
                !.current_streaming_content = <<>>]
      [] event.type = "STATE_SNAPSHOT" -> OnStateSnapshot(u, event.data)
      [] event.type = "STATE_DELTA" ->
            [u EXCEPT !.recipe = ApplyDelta(@, Get(event.data, "delta", <<>>))]
      [] event.type = "RUN_ERROR" ->
            [u EXCEPT !.error_message = Get(event.data, "error", <<"Unknown error">>)]
      [] event.type = "RUN_FINISHED" ->
            [u EXCEPT !.is_loading = FALSE, !.is_streaming = FALSE]
      [] OTHER -> u

\* A handler that would report the failure and leave the spinner on.
OnException_KeepsLoading(u, e) ==
    [u EXCEPT !.error_message = <<"Error connecting to agent: ", e>>]

\* `except Exception as e` of send_message
OnException(u, e) ==
    [u EXCEPT !.error_message = <<"Error connecting to agent: ", e>>,
              !.is_loading = FALSE, !.is_streaming = FALSE]

(***************************************************************************)
(* The client's handlers.  Reflex runs the handlers of one client one      *)
(* after the other, so the form is edited only while no send_message is in *)
(* progress.                                                               *)
(***************************************************************************)
Inputs == {" hola "}
Titles == {"Tortilla"}

\* str.strip() on the inputs that occur.
Strip(s) == IF s = " hola " THEN "hola" ELSE s

SetInput(value) ==
    /\ sse.pc = "idle"
    /\ ui' = [ui EXCEPT !.current_input = value]
    /\ UNCHANGED <<sse, sends, lines, serverVars>>

SetTitle(value) ==
    /\ sse.pc = "idle"
    /\ ui' = [ui EXCEPT !.recipe.title = value]
    /\ UNCHANGED <<sse, sends, lines, serverVars>>

\* send_message up to its first yield.
SendMessage ==
    /\ sse.pc = "idle"
    /\ sends < MaxSends
    /\ Strip(ui.current_input) # ""
    /\ ui' = [ui EXCEPT
                !.current_input = "",
                !.messages = Append(@, ChatMessage("user", <<Strip(ui.current_input)>>)),
                !.error_message = <<>>,
                !.is_loading = TRUE,
                !.is_streaming = FALSE,
                !.current_streaming_content = <<>>]
    /\ sse' = [InitSse EXCEPT !.pc = "sending"]
    /\ sends' = sends + 1
    /\ UNCHANGED <<lines, serverVars>>

\* AGUIClient.run opens the response; raise_for_status passes.
Connect ==
    /\ sse.pc = "sending"
    /\ sse' = [sse EXCEPT !.pc = "reading"]
    /\ UNCHANGED <<ui, sends, lines, serverVars>>

\* The request fails (no connection, or an error status).
ConnectFails ==
    /\ sse.pc = "sending"
    /\ sse' = [sse EXCEPT !.pc = "idle", !.raised = "HTTPError"]
    /\ ui' = OnException(ui, "HTTPError")
    /\ UNCHANGED <<sends, lines, serverVars>>

\* The self._current_message_* fields after an event.
Track(s, event) ==
    IF event.type = "TEXT_MESSAGE_START"
    THEN [s EXCEPT !.current_message_id = Get(event.data, "messageId", NoUuid),
                   !.current_message_content = <<>>]
    ELSE IF event.type = "TEXT_MESSAGE_CONTENT"
    THEN [s EXCEPT !.current_message_content = @ \o Get(event.data, "content", <<>>)]
    ELSE s

\* One line of the response: AGUIClient.run up to its next suspension, and
\* the body of send_message's loop for the event it yields.  A line without
\* the marker is passed over; a text json.loads rejects is skipped
\* (`except json.JSONDecodeError: continue`); a JSON value that is no object
\* has no .get, and the AttributeError of from_dict is caught by no handler
\* of AGUIClient.run: it ends the generator and reaches send_message.
ReadLine(line) ==
    /\ sse.pc = "reading"
    /\ LET read == [sse EXCEPT !.received = Append(@, line)]
           parsed == JsonLoads(line.body)
       IN  IF ~line.data \/ ~parsed.ok
           THEN /\ sse' = read
                /\ UNCHANGED ui
           ELSE IF parsed.kind # "object"
           THEN /\ sse' = [read EXCEPT !.pc = "idle", !.raised = "AttributeError"]
                /\ ui' = OnException(ui, "AttributeError")
           ELSE LET event == FromDict(parsed.value)
                IN  /\ sse' = [Track(read, event) EXCEPT !.yielded = Append(@, event)]
                    /\ ui' = Reduce(ui, event)
    /\ UNCHANGED <<sends, serverVars>>

\* A line of a response made of at most MaxLines lines.
OnLine(line) ==
    /\ lines < MaxLines
    /\ lines' = lines + 1
    /\ ReadLine(line)

\* The response ends: aiter_lines is exhausted and send_message returns.
StreamCloses ==
    /\ sse.pc = "reading"
    /\ sse' = [sse EXCEPT !.pc = "idle"]
    /\ UNCHANGED <<ui, sends, lines, serverVars>>

\* The connection breaks while the response is read.
StreamBreaks ==
    /\ sse.pc = "reading"
    /\ sse' = [sse EXCEPT !.pc = "idle", !.raised = "ReadError"]
    /\ ui' = OnException(ui, "ReadError")
    /\ UNCHANGED <<sends, lines, serverVars>>

(***************************************************************************)
(* SpecClient: the client against every stream of FrameLines.              *)
(***************************************************************************)
NextClient ==
    \/ \E v \in Inputs : SetInput(v)
    \/ \E v \in Titles : SetTitle(v)
    \/ SendMessage
    \/ Connect
    \/ ConnectFails
    \/ \E l \in FrameLines : OnLine(l)
    \/ StreamCloses
    \/ StreamBreaks

SpecClient == InitThreads /\ [][NextClient]_vars

(***************************************************************************)
(* What a consumer of one run has seen.                                    *)
(***************************************************************************)
EventsOf(r) == runs[r].events
HasType(ev, type) == \E i \in DOMAIN ev : ev[i].type = type
Exhausted(r) == runs[r].pc = "done"

\* The text of the TEXT_MESSAGE_CONTENT events of ev, in emission order.
RECURSIVE ContentOf(_)
ContentOf(ev) ==
    IF ev = <<>> THEN <<>>
    ELSE (IF Head(ev).type = "TEXT_MESSAGE_CONTENT" THEN Head(ev).content ELSE <<>>)
         \o ContentOf(Tail(ev))

\* The final STATE_SNAPSHOT of a run that has yielded it.
AtFinal(r) == runs[r].pc \in {"final", "finished", "done"}
FinalSnapshot(r) ==
    LET ev == EventsOf(r)
    IN  IF runs[r].pc = "final" THEN ev[Len(ev)] ELSE ev[Len(ev) - 1]

(***************************************************************************)
(* C1.  Every run consumed to exhaustion starts with RUN_STARTED and ends  *)
(* with RUN_FINISHED, whatever the model stream did, and no event of the   *)
(* run follows its RUN_FINISHED.                                           *)
(***************************************************************************)
C1_StartedFirstFinishedLast ==
    \A r \in RunIds :
        LET ev == EventsOf(r)
        IN  /\ ev # <<>> => ev[1].type = "RUN_STARTED"
            /\ \A i \in DOMAIN ev : ev[i].type = "RUN_FINISHED" => i = Len(ev)
            /\ Exhausted(r) => /\ ev # <<>>
                               /\ ev[Len(ev)].type = "RUN_FINISHED"

\* An exhausted run whose tool handler raised after TOOL_CALL_START.
C1_Witness ==
    \E r \in RunIds :
        /\ Exhausted(r)
        /\ HasType(EventsOf(r), "RUN_ERROR")
        /\ HasType(EventsOf(r), "TOOL_CALL_START")

(***************************************************************************)
(* C2.  The step that yields the final STATE_SNAPSHOT yields the thread's  *)
(* document and message history as they are at that moment, also after a   *)
(* RUN_ERROR; once RUN_FINISHED is yielded, that snapshot is the           *)
(* second-to-last event and the last event is RUN_FINISHED with the runId  *)
(* of the run's RUN_STARTED.                                               *)
(***************************************************************************)
C2_FinalSnapshotThenFinished ==
    [][\A r \in RunIds :
          LET ev == runs'[r].events
              n == Len(ev)
          IN  /\ (runs[r].pc # "final" /\ runs'[r].pc = "final") =>
                    /\ ev[n].type = "STATE_SNAPSHOT"
                    /\ ev[n].state.recipe = RecipeToDict(agents'[runs[r].thread].recipe)
                    /\ ev[n].state.messages = agents'[runs[r].thread].messages
              /\ runs'[r].pc \in {"finished", "done"} =>
                    /\ n >= 2
                    /\ ev[n - 1].type = "STATE_SNAPSHOT"
                    /\ ev[n].type = "RUN_FINISHED"
                    /\ ev[1].type = "RUN_STARTED"
                    /\ ev[n].runId = ev[1].runId]_vars

\* A finished run that updated the document, stored its text and then
\* yielded RUN_ERROR.
C2_Witness ==
    \E r \in RunIds :
        /\ runs[r].pc = "finished"
        /\ HasType(EventsOf(r), "RUN_ERROR")
        /\ HasType(EventsOf(r), "STATE_DELTA")
        /\ FinalSnapshot(r).state.recipe.title # ""

(***************************************************************************)
(* C3.  In a run that yielded TEXT_MESSAGE_START and TEXT_MESSAGE_END, the *)
(* text of the TEXT_MESSAGE_CONTENT events, when there is any, is the      *)
(* content of the assistant message that ends the message list of the      *)
(* run's final STATE_SNAPSHOT, whatever the tool invocations did.          *)
(***************************************************************************)
C3_TextIsLastAssistantMessage ==
    \A r \in RunIds :
        LET ev == EventsOf(r)
            text == ContentOf(ev)
            msgs == FinalSnapshot(r).state.messages
        IN  (/\ AtFinal(r)
             /\ HasType(ev, "TEXT_MESSAGE_START")
             /\ HasType(ev, "TEXT_MESSAGE_END")
             /\ text # <<>>)
            => /\ msgs # <<>>
               /\ msgs[Len(msgs)] = AssistantMsg(text)


\* The number of TOOL_CALL_START events of ev, and the place of the k-th.
ToolStarts(ev) == Cardinality({i \in DOMAIN ev : ev[i].type = "TOOL_CALL_START"})
StartIdx(ev, k) ==
    CHOOSE i \in DOMAIN ev :
        /\ ev[i].type = "TOOL_CALL_START"
        /\ Cardinality({j \in 1..i : ev[j].type = "TOOL_CALL_START"}) = k

InvalidJson(text) == ~JsonLoads(text).ok

(***************************************************************************)
(* C4.  An invocation whose argument buffer is not valid JSON gets, right  *)
(* after its TOOL_CALL_START, a TOOL_CALL_END with the same toolCallId and *)
(* an error result; what follows is the next invocation's TOOL_CALL_START, *)
(* or the final STATE_SNAPSHOT when it was the last one, never RUN_ERROR;  *)
(* and a run that yielded no RUN_ERROR has started every invocation by the *)
(* time it is exhausted.                                                   *)
(***************************************************************************)
C4_InvalidJsonStaysLocal ==
    \A r \in RunIds :
        LET ev == EventsOf(r)
            data == runs[r].tool_calls_data
        IN  /\ \A k \in DOMAIN data :
                  (InvalidJson(data[k].arguments) /\ k <= ToolStarts(ev)) =>
                    LET i == StartIdx(ev, k)
                    IN  /\ i < Len(ev) =>
                              /\ ev[i + 1].type = "TOOL_CALL_END"
                              /\ ev[i + 1].toolCallId = ev[i].toolCallId
                              /\ "error" \in DOMAIN ev[i + 1].result
                        /\ i + 1 < Len(ev) =>
                              ev[i + 2].type = IF k < Len(data)
                                               THEN "TOOL_CALL_START"
                                               ELSE "STATE_SNAPSHOT"
            /\ (Exhausted(r) /\ HasType(ev, "TEXT_MESSAGE_END")
                             /\ ~HasType(ev, "RUN_ERROR"))
                  => ToolStarts(ev) = Len(data)

\* An exhausted run whose first invocation had invalid JSON and whose second
\* invocation was processed after it.
C4_Witness ==
    \E r \in RunIds :
        /\ Exhausted(r)
        /\ Len(runs[r].tool_calls_data) = 2
        /\ InvalidJson(runs[r].tool_calls_data[1].arguments)
        /\ ToolStarts(EventsOf(r)) = 2
        /\ HasType(EventsOf(r), "STATE_DELTA")

(***************************************************************************)
(* C5.  When the request carries the client's document, every ingredient   *)
(* of every STATE_SNAPSHOT of the run is an ingredient of the client's     *)
(* document or was set by an update_recipe of this run: an ingredient the  *)
(* client left out is not brought back from the server's stored document.  *)
(***************************************************************************)
ClientNames(req_state) ==
    {req_state.value.recipe.ingredients[i].name :
        i \in DOMAIN req_state.value.recipe.ingredients}

SetByRun(ev, i, name) ==
    \E k \in 1..(i - 1) :
        /\ ev[k].type = "STATE_DELTA"
        /\ \E j \in DOMAIN ev[k].delta[1].value.ingredients :
              ev[k].delta[1].value.ingredients[j].name = name

C5_OmittedIngredientStaysOut ==
    \A r \in RunIds :
        LET ev == EventsOf(r)
        IN  runs[r].req_state.kind = "object" =>
              \A i \in DOMAIN ev :
                  ev[i].type = "STATE_SNAPSHOT" =>
                    \A j \in DOMAIN ev[i].state.recipe.ingredients :
                        LET name == ev[i].state.recipe.ingredients[j].name
                        IN  \/ name \in ClientNames(runs[r].req_state)
                            \/ SetByRun(ev, i, name)

(***************************************************************************)
(* C7.  The order of the events of a run whose model stream ended without  *)
(* failure, as an automaton over the event types.  With `lenient`, a       *)
(* TOOL_CALL_START may be followed by RUN_ERROR and the final events.      *)
(***************************************************************************)
ShapeStep(q, type, lenient) ==
    CASE q = "new" /\ type = "RUN_STARTED" -> "started"
      [] q = "started" /\ type = "STATE_SNAPSHOT" -> "baseline"
      [] q = "baseline" /\ type = "TEXT_MESSAGE_START" -> "text"
      [] q = "text" /\ type = "TEXT_MESSAGE_CONTENT" -> "text"
      [] q = "text" /\ type = "TEXT_MESSAGE_END" -> "tools"
      [] q = "tools" /\ type = "TOOL_CALL_START" -> "call"
      [] q = "call" /\ type = "STATE_DELTA" -> "delta"
      [] q \in {"call", "delta"} /\ type = "TOOL_CALL_END" -> "tools"
      [] q = "tools" /\ type = "STATE_SNAPSHOT" -> "final"
      [] lenient /\ q = "call" /\ type = "RUN_ERROR" -> "failed"
      [] q = "failed" /\ type = "STATE_SNAPSHOT" -> "final"
      [] q = "final" /\ type = "RUN_FINISHED" -> "finished"
      [] OTHER -> "reject"

RECURSIVE Shape(_, _, _)
Shape(ev, q, lenient) ==
    IF ev = <<>> THEN q
    ELSE Shape(Tail(ev), ShapeStep(q, Head(ev).type, lenient), lenient)

BaselineEndsWithUserMessage(r) ==
    LET msgs == EventsOf(r)[2].state.messages
    IN  /\ msgs # <<>>
        /\ msgs[Len(msgs)] = UserMsg(runs[r].user_message)

\* C7 as claimed: RUN_STARTED, STATE_SNAPSHOT ending with the run's user
\* message, TEXT_MESSAGE_START, TEXT_MESSAGE_CONTENT*, TEXT_MESSAGE_END,
\* (TOOL_CALL_START, STATE_DELTA?, TOOL_CALL_END)*, STATE_SNAPSHOT,
\* RUN_FINISHED, for every run whose model stream completed.
C7_ExactShape ==
    \A r \in RunIds :
        LET ev == EventsOf(r)
        IN  HasType(ev, "TEXT_MESSAGE_END") =>
              /\ Shape(ev, "new", FALSE) # "reject"
              /\ Exhausted(r) => Shape(ev, "new", FALSE) = "finished"
              /\ BaselineEndsWithUserMessage(r)

\* C7 as amended: the same shape, except that an update_recipe invocation
\* whose arguments decode to something the handler cannot apply ends the
\* tool phase with TOOL_CALL_START, RUN_ERROR before the final
\* STATE_SNAPSHOT and RUN_FINISHED.
C7_ShapeOrToolError ==
    \A r \in RunIds :
        LET ev == EventsOf(r)
            data == runs[r].tool_calls_data
        IN  HasType(ev, "TEXT_MESSAGE_END") =>
              /\ Shape(ev, "new", TRUE) # "reject"
              /\ Exhausted(r) => Shape(ev, "new", TRUE) = "finished"
              /\ BaselineEndsWithUserMessage(r)
              /\ HasType(ev, "RUN_ERROR") =>
                    LET tc_data == data[ToolStarts(ev)]
                    IN  /\ JsonLoads(tc_data.arguments).ok
                        /\ HandleToolCallRaises(tc_data.name,
                                                JsonLoads(tc_data.arguments))

\* An exhausted run with text, two invocations, a STATE_DELTA and no error.
C7_Witness ==
    \E r \in RunIds :
        /\ Exhausted(r)
        /\ ContentOf(EventsOf(r)) # <<>>
        /\ ToolStarts(EventsOf(r)) = 2
        /\ HasType(EventsOf(r), "STATE_DELTA")
        /\ ~HasType(EventsOf(r), "RUN_ERROR")

(***************************************************************************)
(* C9.  The step that executes an update_recipe invocation.                *)
(***************************************************************************)
Executes(r) == runs[r].pc = "tool" /\ runs'[r].pc # "tool"
Invocation(r) == runs[r].tool_calls_data[runs[r].tc]
LastEvent(run) == run.events[Len(run.events)]

\* Every field of the document is the argument, or the default when the
\* argument is absent; the STATE_DELTA is one replace of /recipe by it.
ReplacedBy(r, arguments) ==
    LET doc == agents'[runs[r].thread].recipe
        ings == Get(arguments, "ingredients", EmptyList).value
        e == LastEvent(runs'[r])
    IN  /\ doc.title = Get(arguments, "title", "")
        /\ doc.description = Get(arguments, "description", "")
        /\ Len(doc.ingredients) = Len(ings)
        /\ \A i \in DOMAIN ings :
              /\ doc.ingredients[i].name = Get(ings[i].value, "name", "")
              /\ doc.ingredients[i].quantity = Get(ings[i].value, "quantity", "")
              /\ doc.ingredients[i].unit = Get(ings[i].value, "unit", "")
        /\ doc.instructions = Get(arguments, "instructions", <<>>)
        /\ doc.prep_time = Get(arguments, "prep_time", "")
        /\ doc.cook_time = Get(arguments, "cook_time", "")
        /\ doc.servings = Get(arguments, "servings", DefaultServings)
        /\ e.type = "STATE_DELTA"
        /\ Len(e.delta) = 1
        /\ e.delta[1].op = "replace"
        /\ e.delta[1].path = "/recipe"
        /\ e.delta[1].value = RecipeToDict(doc)

RECURSIVE ObjectsOf(_)
ObjectsOf(ls) ==
    IF ls = <<>> THEN <<>>
    ELSE LET parsed == JsonLoads(Head(ls).body)
         IN  (IF Head(ls).data /\ parsed.ok /\ parsed.kind = "object"
              THEN <<parsed.value>> ELSE <<>>)
             \o ObjectsOf(Tail(ls))

\* A data line whose text is no JSON object.
Malformed(l) ==
    /\ l.data
    /\ ~(JsonLoads(l.body).ok /\ JsonLoads(l.body).kind = "object")

\* The recipe a recipe dict V describes by itself: the fields V gives, the
\* defaults of the client's Recipe and Ingredient for the others.
BuiltFrom(V) ==
    LET ings == Get(V, "ingredients", ClientRecipe.ingredients)
    IN  [title |-> Get(V, "title", ClientRecipe.title),
         skill_level |-> IF "skill_level" \in DOMAIN V
                         THEN MapSkillLevel(V.skill_level)
                         ELSE ClientRecipe.skill_level,
         special_preferences |->
             Get(V, "special_preferences", ClientRecipe.special_preferences),
         cooking_time |-> Get(V, "cooking_time", ClientRecipe.cooking_time),
         ingredients |->
             [i \in DOMAIN ings |->
                 [icon |-> Get(ings[i], "icon", DefaultIcon),
                  name |-> Get(ings[i], "name", ""),
                  amount |-> Get(ings[i], "amount", "")]],
         instructions |-> Get(V, "instructions", ClientRecipe.instructions)]

\* The event is a STATE_DELTA of one operation, on "/recipe", with a
\* non-empty value.
IsRecipeDelta(e) ==
    /\ e.type = "STATE_DELTA"
    /\ "delta" \in DOMAIN e.data
    /\ Len(e.data.delta) = 1
    /\ e.data.delta[1].path = "/recipe"
    /\ DOMAIN e.data.delta[1].value # {}

LastOf(s) == s[Len(s)]

(***************************************************************************)
(* C6.  Every data line whose text does not decode to a JSON object        *)
(* (invalid JSON, or valid JSON that is no object) is discarded by         *)
(* AGUIClient.run without raising, and every valid frame before and after  *)
(* it is yielded: no line ends the generator with an exception of its      *)
(* own, and the events yielded are the objects of the lines read.          *)
(* Violated: the line "data: 5" raises AttributeError in from_dict.        *)
(***************************************************************************)
C6_MalformedFramesSkipped ==
    /\ sse.raised \notin {"AttributeError"}
    /\ (\E i \in DOMAIN sse.received : Malformed(sse.received[i]))
          => /\ Len(sse.yielded) = Len(ObjectsOf(sse.received))
             /\ \A k \in DOMAIN sse.yielded :
                    sse.yielded[k].data = ObjectsOf(sse.received)[k]

(***************************************************************************)
(* C8.  In the client reducer, a STATE_DELTA of one "/recipe" operation    *)
(* with a non-empty value V leaves the recipe equal to the recipe built    *)
(* from V alone, whatever the recipe was before, and the same STATE_DELTA  *)
(* processed again right after leaves the recipe as it is.                 *)
(***************************************************************************)
C8_DeltaReplacesRecipe ==
    [][ (sse.pc = "reading" /\ Len(sse'.yielded) = Len(sse.yielded) + 1
         /\ IsRecipeDelta(LastOf(sse'.yielded)))
        => /\ ui'.recipe = BuiltFrom(LastOf(sse'.yielded).data.delta[1].value)
           /\ (sse.yielded # <<>> /\ LastOf(sse.yielded) = LastOf(sse'.yielded))
                 => ui'.recipe = ui.recipe ]_vars

\* A recipe with a title and two ingredients is replaced by a value that
\* gives no title and one ingredient, and the same delta is processed a
\* second time.
C8_Witness ==
    /\ Len(sse.yielded) = 3
    /\ sse.yielded[1] = FromDict(StateDelta(PriorRecipe))
    /\ sse.yielded[2] = FromDict(Delta(<<RecipeOp(StepsValue)>>))
    /\ sse.yielded[3] = sse.yielded[2]
    /\ ui.recipe.title = ""
    /\ ui.recipe.skill_level = "Avanzado"
    /\ ui.recipe.ingredients = <<[icon |-> DefaultIcon, name |-> "C", amount |-> ""]>>
    /\ ui.recipe.instructions = <<"mix">>

(***************************************************************************)
(* C10.  AGUIEvent.from_dict rejects no decoded JSON object because of its *)
(* type field: every object read is yielded as an event that keeps the     *)
(* raw object in data, with the object's type when that is a member of     *)
(* AGUIEventType and with CUSTOM when the type is unknown or missing.      *)
(***************************************************************************)
C10_FromDictDecodesEveryObject ==
    LET objects == ObjectsOf(sse.received)
    IN  /\ Len(sse.yielded) = Len(objects)
        /\ \A k \in DOMAIN sse.yielded :
              /\ sse.yielded[k].data = objects[k]
              /\ sse.yielded[k].type =
                    IF "type" \in DOMAIN objects[k] /\ objects[k].type \in AGUIEventType
                    THEN objects[k].type
                    ELSE "CUSTOM"

\* An object of a type outside the enumeration, an object without a type
\* and an object of a known type have been decoded.
C10_Witness ==
    /\ \E k \in DOMAIN sse.yielded :
          /\ sse.yielded[k].type = "CUSTOM"
          /\ "type" \in DOMAIN sse.yielded[k].data
          /\ sse.yielded[k].data.type = "FUTURE_EVENT"
          /\ sse.yielded[k].data.payload = "x"
    /\ \E k \in DOMAIN sse.yielded :
          /\ sse.yielded[k].type = "CUSTOM"
          /\ "type" \notin DOMAIN sse.yielded[k].data
    /\ \E k \in DOMAIN sse.yielded : sse.yielded[k].type = "RUN_FINISHED"

(***************************************************************************)
(* What the endpoints answer and what a thread looks like between runs.    *)
(***************************************************************************)
\* A run is active on thread t from the request up to the exhaustion of its
\* generator.
NoRunActiveOn(t) ==
    \A r \in RunIds : runs[r].thread = t => runs[r].pc \in {"rejected", "done"}

\* The first STATE_SNAPSHOT of a run that has yielded it.
FirstSnapshot(r) == EventsOf(r)[2]

(***************************************************************************)
(* C11.  A reset answers with status ok, emits no event and creates no     *)
(* thread; when it returns with no run active on the thread, the thread's  *)
(* message history is empty and its document is the default recipe; they   *)
(* stay so while no run is active; and the first STATE_SNAPSHOT of a run   *)
(* that starts from there carries that run's user message only.            *)
(***************************************************************************)
C11_ResetClearsThread ==
    [][ /\ \A t \in Threads :
              (resets' = resets + 1 /\ ResetThread(t)) =>
                  /\ runs' = runs
                  /\ ResetResponse(t \in DOMAIN agents).status = "ok"
                  /\ DOMAIN agents' = DOMAIN agents
                  /\ (t \in DOMAIN agents /\ NoRunActiveOn(t)) =>
                        /\ agents'[t].messages = <<>>
                        /\ agents'[t].recipe = EmptyRecipe
        /\ \A t \in DOMAIN agents :
              (resets' = resets /\ NoRunActiveOn(t)) => agents'[t] = agents[t]
        /\ \A r \in RunIds :
              (/\ runs[r].pc = "started"
               /\ runs'[r].pc = "baseline"
               /\ agents[runs[r].thread].messages = <<>>
               /\ agents[runs[r].thread].recipe = EmptyRecipe) =>
                  LET snapshot == LastOf(runs'[r].events)
                  IN  /\ snapshot.type = "STATE_SNAPSHOT"
                      /\ snapshot.state.messages = <<UserMsg(runs[r].user_message)>>
                      /\ snapshot.state.recipe = RecipeToDict(EmptyRecipe) ]_vars

\* A run has left a recipe and an assistant message on its thread, the
\* thread was reset, and the next run on the thread has yielded its first
\* STATE_SNAPSHOT with its own user message only.
C11_Witness ==
    \E r, q \in RunIds :
        /\ r # q
        /\ runs[r].pc = "done"
        /\ runs[q].thread = runs[r].thread
        /\ FinalSnapshot(r).state.recipe.title # ""
        /\ Len(FinalSnapshot(r).state.messages) = 2
        /\ resets = 1
        /\ runs[q].pc = "baseline"
        /\ FirstSnapshot(q).state.messages = <<UserMsg(runs[q].user_message)>>
        /\ FirstSnapshot(q).state.recipe.title = ""

(***************************************************************************)
(* C12.  Runs on one thread are serialized: a run requested for a thread   *)
(* while an earlier run on that thread has not yet yielded RUN_FINISHED    *)
(* yields no event, and so neither reads nor writes the thread, until the  *)
(* earlier run has finished.  Requests arrive in the order of the run      *)
(* numbers.                                                                *)
(* Violated: run_shared_state hands every request its own generator over   *)
(* the shared agent, and nothing orders the generators of one thread.      *)
(***************************************************************************)
C12_SameThreadRunsSerialized ==
    \A r, q \in RunIds :
        (/\ r < q
         /\ runs[r].pc \notin {"idle", "rejected", "finished", "done"}
         /\ runs[q].thread = runs[r].thread)
        => EventsOf(q) = <<>>

(***************************************************************************)
(* C13.  Threads are independent: a step of a run, and a reset, leave the  *)
(* message history and the document of every other thread as they are.     *)
(* A thread has one agent: it is created, in its initial state, by the     *)
(* first request for the thread, a later request finds it as it is, and no *)
(* step removes it.                                                        *)
(***************************************************************************)
C13_ThreadsIndependent ==
    [][ /\ \A r \in RunIds :
              runs'[r] # runs[r] =>
                  \A t \in DOMAIN agents :
                      t # runs'[r].thread => agents'[t] = agents[t]
        /\ \A u \in Threads :
              (resets' = resets + 1 /\ ResetThread(u)) =>
                  \A t \in DOMAIN agents : t # u => agents'[t] = agents[t]
        /\ DOMAIN agents \subseteq DOMAIN agents'
        /\ \A r \in RunIds :
              (runs[r].pc = "idle" /\ runs'[r].pc # "idle") =>
                  LET t == runs'[r].thread
                  IN  /\ DOMAIN agents' = DOMAIN agents \cup {t}
                      /\ agents'[t] = IF t \in DOMAIN agents
                                      THEN agents[t]
                                      ELSE NewRecipeState ]_vars

\* Two runs are in progress on different threads; one has replaced the
\* document of its thread, the other has not.
C13_Witness ==
    \E r, q \in RunIds :
        /\ runs[r].thread # runs[q].thread
        /\ runs[r].pc = "tools"
        /\ runs[q].pc = "streaming"
        /\ HasType(EventsOf(r), "STATE_DELTA")
        /\ agents[runs[r].thread].recipe.title # ""
        /\ agents[runs[q].thread].recipe = EmptyRecipe
        /\ Len(agents[runs[q].thread].messages) = 1

(***************************************************************************)
(* SpecSnapshots: the client against streams of state events whose         *)
(* payload is whole, empty, partial or missing.                            *)
(***************************************************************************)
SnapshotOf(state) == [type |-> "STATE_SNAPSHOT", state |-> state]

SnapshotLines ==
    { EventLine(StateSnapshot(PriorAgents["t1"])),
      EventLine(StateSnapshot(NewRecipeState)),
      EventLine(SnapshotOf([recipe |-> [title |-> "Soup"]])),
      EventLine(SnapshotOf([recipe |-> [cooking_time |-> "15 min"]])),
      EventLine(SnapshotOf(EmptyValue)),
      DataLine(JsonDumps([type |-> "STATE_SNAPSHOT"])),
      EventLine(Delta(<<RecipeOp(StepsValue)>>)),
      EventLine(Delta(<<RecipeOp(EmptyValue)>>)),
      DataLine(JsonDumps([type |-> "STATE_DELTA"])),
      EventLine(RunFinished(Uuid4(1, 1))) }

NextSnapshots ==
    \/ \E v \in Inputs : SetInput(v)
    \/ \E v \in Titles : SetTitle(v)
    \/ SendMessage
    \/ Connect
    \/ ConnectFails
    \/ \E l \in SnapshotLines : OnLine(l)
    \/ StreamCloses
    \/ StreamBreaks

SpecSnapshots == InitThreads /\ [][NextSnapshots]_vars

\* The step reads a line and yields its event to the reducer.
Yields(type) ==
    /\ sse.pc = "reading"
    /\ Len(sse'.yielded) = Len(sse.yielded) + 1
    /\ LastOf(sse'.yielded).type = type

\* The recipe dict a STATE_SNAPSHOT carries, empty when it carries none.
SnapshotDocument(e) ==
    LET state == IF "snapshot" \in DOMAIN e.data THEN e.data.snapshot
                 ELSE IF "state" \in DOMAIN e.data THEN e.data.state
                 ELSE EmptyValue
    IN  IF "recipe" \in DOMAIN state THEN state.recipe ELSE EmptyValue

(***************************************************************************)
(* C14.  After the client reducer has processed a STATE_SNAPSHOT, the      *)
(* client's recipe is the recipe the snapshot carries, absent fields       *)
(* taking their defaults, whatever the recipe was before; a snapshot with  *)
(* an empty document and a snapshot that omits fields included.            *)
(* Violated: the reducer replaces the recipe only when the snapshot's      *)
(* recipe has a non-empty title.                                           *)
(***************************************************************************)
C14_SnapshotReplacesDocument ==
    [][ Yields("STATE_SNAPSHOT")
        => ui'.recipe = BuiltFrom(SnapshotDocument(LastOf(sse'.yielded))) ]_vars

\* The recipe dict a state event carries: the snapshot's recipe, or the value
\* of the delta's first operation; empty when the event carries none.
PayloadOf(e) ==
    IF e.type = "STATE_SNAPSHOT" THEN SnapshotDocument(e)
    ELSE IF "delta" \in DOMAIN e.data /\ e.data.delta # <<>>
            /\ "value" \in DOMAIN e.data.delta[1]
    THEN e.data.delta[1].value
    ELSE EmptyValue

\* The step reads a line of the open response, which stays open, yields its
\* event and raises nothing.
ReadsOn ==
    /\ sse.pc = "reading"
    /\ sse'.pc = "reading"
    /\ sse'.raised = ""
    /\ Len(sse'.yielded) = Len(sse.yielded) + 1
    /\ ui'.error_message = ui.error_message

(***************************************************************************)
(* C15.  A STATE_SNAPSHOT or STATE_DELTA whose state, recipe or value is   *)
(* missing, empty or partial is reduced without raising and without        *)
(* ending the stream, and the fields the payload does not give have their  *)
(* default values afterwards.                                              *)
(* Violated in its second half: a snapshot whose recipe has no title and   *)
(* a delta whose value is empty leave the recipe as it was, so a field     *)
(* set before keeps its value.                                             *)
(***************************************************************************)
C15_PartialPayloadDefaults ==
    [][ \A l \in SnapshotLines :
            (sse.pc = "reading" /\ sse'.received = Append(sse.received, l))
            => /\ ReadsOn
               /\ LastOf(sse'.yielded).type \in {"STATE_SNAPSHOT", "STATE_DELTA"}
                  => \A f \in DOMAIN ClientRecipe \ DOMAIN PayloadOf(LastOf(sse'.yielded)) :
                        ui'.recipe[f] = ClientRecipe[f] ]_vars

\* The first half of C15 alone: no state event of SnapshotLines raises or
\* ends the stream.
PartialPayloadTolerated ==
    [][ \A l \in SnapshotLines :
            (sse.pc = "reading" /\ sse'.received = Append(sse.received, l))
            => ReadsOn ]_vars

(***************************************************************************)
(* SpecText: the client against streams of text-message events.            *)
(***************************************************************************)
TextLines ==
    { EventLine(TextMessageStart(Uuid4(1, 2))),
      EventLine(TextMessageContent(Uuid4(1, 2), <<"Ho">>)),
      EventLine(TextMessageContent(Uuid4(1, 2), <<"la">>)),
      EventLine(TextMessageEnd(Uuid4(1, 2))),
      EventLine(RunFinished(Uuid4(1, 1))) }

NextText ==
    \/ \E v \in Inputs : SetInput(v)
    \/ \E v \in Titles : SetTitle(v)
    \/ SendMessage
    \/ Connect
    \/ ConnectFails
    \/ \E l \in TextLines : OnLine(l)
    \/ StreamCloses
    \/ StreamBreaks

SpecText == InitThreads /\ [][NextText]_vars

\* The fragments of the events after the last TEXT_MESSAGE_START of evs, in
\* order of arrival.
RECURSIVE FragmentsSinceStart(_)
FragmentsSinceStart(evs) ==
    IF evs = <<>> \/ LastOf(evs).type = "TEXT_MESSAGE_START" THEN <<>>
    ELSE FragmentsSinceStart(SubSeq(evs, 1, Len(evs) - 1))
         \o (IF LastOf(evs).type = "TEXT_MESSAGE_CONTENT"
             THEN LastOf(evs).data.content ELSE <<>>)

\* A message is open: a TEXT_MESSAGE_START was yielded and no
\* TEXT_MESSAGE_END after it.
RECURSIVE MessageOpen(_)
MessageOpen(evs) ==
    /\ evs # <<>>
    /\ \/ LastOf(evs).type = "TEXT_MESSAGE_START"
       \/ /\ LastOf(evs).type # "TEXT_MESSAGE_END"
          /\ MessageOpen(SubSeq(evs, 1, Len(evs) - 1))

(***************************************************************************)
(* C16.  TEXT_MESSAGE_START empties the client's streaming buffer and sets *)
(* is_streaming; after each TEXT_MESSAGE_CONTENT of an open message the    *)
(* buffer is the concatenation, in order of arrival, of the fragments      *)
(* received since that start; TEXT_MESSAGE_END appends the buffer to the   *)
(* transcript as one assistant message if it is non-empty, and in every    *)
(* case empties the buffer and clears is_streaming.                        *)
(***************************************************************************)
C16_StreamingBuffer ==
    [][ /\ Yields("TEXT_MESSAGE_START")
           => /\ ui'.current_streaming_content = <<>>
              /\ ui'.is_streaming
        /\ (Yields("TEXT_MESSAGE_CONTENT") /\ MessageOpen(sse.yielded))
           => ui'.current_streaming_content = FragmentsSinceStart(sse'.yielded)
        /\ Yields("TEXT_MESSAGE_END")
           => /\ ui'.messages =
                    IF ui.current_streaming_content # <<>>
                    THEN Append(ui.messages,
                                [role |-> "assistant",
                                 content |-> ui.current_streaming_content])
                    ELSE ui.messages
              /\ ui'.current_streaming_content = <<>>
              /\ ~ui'.is_streaming ]_vars

\* Two fragments arrived in the order "la", "Ho" after a start that followed
\* an earlier fragment; the buffer holds exactly the two.
C16_Witness ==
    /\ sse.pc = "reading"
    /\ Len(sse.yielded) >= 3
    /\ sse.yielded[Len(sse.yielded) - 2].type = "TEXT_MESSAGE_START"
    /\ ui.current_streaming_content = <<"la", "Ho">>
    /\ ui.is_streaming

\* What httpx raises for a failed exchange: no connection, an error status
\* (raise_for_status), a timeout or a broken read.
TransportErrors == {"HTTPError", "ReadError"}

(***************************************************************************)
(* C17.  When the exchange with the server fails in transport, whether     *)
(* before the response is open or while it is read, the client ends with   *)
(* a non-empty error message, is_loading and is_streaming false, and the   *)
(* transcript and the recipe it had when the failure occurred.             *)
(***************************************************************************)
C17_TransportFailureReported ==
    [][ (sse.raised = "" /\ sse'.raised \in TransportErrors)
        => /\ ui'.error_message # <<>>
           /\ ~ui'.is_loading
           /\ ~ui'.is_streaming
           /\ ui'.messages = ui.messages
           /\ ui'.recipe = ui.recipe
           /\ sse'.pc = "idle" ]_vars

\* The read broke after a snapshot and a text message had been reduced.
C17_Witness ==
    /\ sse.raised = "ReadError"
    /\ HasType(sse.yielded, "STATE_SNAPSHOT")
    /\ ui.recipe.title = PriorRecipe.title
    /\ Len(ui.messages) >= 2
    /\ ui.error_message # <<>>
    /\ ~ui.is_loading

\* The positions of the RUN_ERROR events of ev.
ErrorsAt(ev) == {i \in DOMAIN ev : ev[i].type = "RUN_ERROR"}

\* The RUN_ERROR at position i of ev reports a failure of the model
\* completion: it follows the initial STATE_SNAPSHOT (the call failed) or
\* an event of the text message (the stream failed).
CompletionFailedAt(ev, i) ==
    /\ i \in ErrorsAt(ev)
    /\ i > 1
    /\ ev[i - 1].type \in {"STATE_SNAPSHOT", "TEXT_MESSAGE_START", "TEXT_MESSAGE_CONTENT"}

TypesOf(ev) == [i \in DOMAIN ev |-> ev[i].type]

IsPrefix(s, t) == Len(s) <= Len(t) /\ s = SubSeq(t, 1, Len(s))

(***************************************************************************)
(* C18.  When the model completion fails, at the call or at any chunk,     *)
(* the run yields exactly one RUN_ERROR, which carries the message of the  *)
(* failure; no TEXT_MESSAGE or TOOL_CALL event follows it; what follows is *)
(* the final STATE_SNAPSHOT and then RUN_FINISHED, after which the         *)
(* generator returns.                                                      *)
(***************************************************************************)
C18_CompletionFailureReported ==
    \A r \in RunIds :
        LET ev == EventsOf(r)
        IN  \A i \in DOMAIN ev :
                CompletionFailedAt(ev, i) =>
                    /\ ErrorsAt(ev) = {i}
                    /\ ev[i].error = IF ev[i - 1].type = "STATE_SNAPSHOT"
                                     THEN <<"completion failed">>
                                     ELSE <<"stream failed">>
                    /\ IsPrefix(TypesOf(SubSeq(ev, i + 1, Len(ev))),
                                <<"STATE_SNAPSHOT", "RUN_FINISHED">>)
                    /\ Len(ev) >= i + 1 => ~ev[i + 1].state.is_generating
                    /\ runs[r].pc \in {"finished", "done"} <=> Len(ev) = i + 2
                    /\ runs[r].pc = "error" <=> Len(ev) = i

\* The stream failed after text and a tool-call fragment had arrived; the
\* run has ended with RUN_ERROR, STATE_SNAPSHOT, RUN_FINISHED.
C18_Witness ==
    LET ev == EventsOf(1)
    IN  /\ runs[1].pc = "done"
        /\ Len(ev) >= 6
        /\ CompletionFailedAt(ev, Len(ev) - 2)
        /\ ev[Len(ev) - 2].error = <<"stream failed">>
        /\ ev[Len(ev) - 3].type = "TEXT_MESSAGE_CONTENT"
        /\ runs[1].tool_calls_data # <<>>

\* The client's state after it has read the events ev of a response, one
\* "data:" line each.
RECURSIVE ClientAfter(_, _)
ClientAfter(u, ev) ==
    IF ev = <<>> THEN u
    ELSE Reduce(ClientAfter(u, SubSeq(ev, 1, Len(ev) - 1)),
                FromDict(JsonLoads(EventLine(LastOf(ev)).body).value))

\* The step yields an event that reports a failure: RUN_ERROR, or the
\* TOOL_CALL_END of an invocation whose arguments were no JSON.
YieldsFailure(r) ==
    /\ Len(runs'[r].events) = Len(runs[r].events) + 1
    /\ \/ LastEvent(runs'[r]).type = "RUN_ERROR"
       \/ /\ LastEvent(runs'[r]).type = "TOOL_CALL_END"
          /\ LastEvent(runs'[r]).result = InvalidJsonResult

\* The step is a successful update_recipe of run r: STATE_DELTA is yielded
\* with the document the thread now has.
YieldsUpdate(r) ==
    /\ Len(runs'[r].events) = Len(runs[r].events) + 1
    /\ LastEvent(runs'[r]) = StateDelta(agents'[runs[r].thread].recipe)

(***************************************************************************)
(* C19.  A failure never rolls the document back.  On the server, a step   *)
(* that reports invalid JSON arguments or yields RUN_ERROR leaves the      *)
(* thread's recipe as it is, and so does the finalization that follows     *)
(* RUN_ERROR, whose snapshot carries that recipe: during a run the recipe  *)
(* changes only by a successful update_recipe (or by a reset request).     *)
(* On the client, reducing a RUN_ERROR leaves the recipe unchanged, after  *)
(* every prefix of events a run yields and from a default or an edited     *)
(* recipe.                                                                 *)
(***************************************************************************)
C19_FailuresKeepDocument ==
    [][ \A r \in RunIds :
          LET t == runs[r].thread
              ev == runs'[r].events
          IN  (runs[r].pc \notin {"idle", "rejected"} /\ resets' = resets) =>
                /\ YieldsFailure(r) => agents'[t].recipe = agents[t].recipe
                /\ runs[r].pc = "error" =>
                      /\ agents'[t].recipe = agents[t].recipe
                      /\ LastEvent(runs'[r]).state.recipe = RecipeToDict(agents[t].recipe)
                /\ agents'[t].recipe # agents[t].recipe => YieldsUpdate(r)
                /\ (YieldsFailure(r) /\ LastEvent(runs'[r]).type = "RUN_ERROR") =>
                      \A u \in {InitUi, [InitUi EXCEPT !.recipe.title = "Tortilla"]} :
                          /\ ClientAfter(u, ev).recipe =
                                 ClientAfter(u, runs[r].events).recipe
                          /\ ClientAfter(u, ev).error_message = LastEvent(runs'[r]).error
      ]_vars

\* update_recipe(Soup) succeeded, the next invocation made the handler
\* raise, and the run has ended: the thread's recipe is Soup.
C19_Witness ==
    LET ev == EventsOf(1)
    IN  /\ runs[1].pc = "done"
        /\ resets = 0
        /\ HasType(ev, "STATE_DELTA")
        /\ HasType(ev, "RUN_ERROR")
        /\ agents["t1"].recipe.title = "Soup"
        /\ FinalSnapshot(1).state.recipe.title = "Soup"
        /\ ClientAfter(InitUi, ev).recipe.title = "Soup"

\* The indices of the accumulated invocations, in the accumulator's order.
IndicesOf(data) == [i \in DOMAIN data |-> data[i].index]

\* The k-th TOOL_CALL_START of the run is for the k-th accumulated
\* invocation, and no two carry the same toolCallId.
StartsFollowAccumulator(run) ==
    LET ev == run.events
    IN  /\ ToolStarts(ev) <= Len(run.tool_calls_data)
        /\ \A k \in 1..ToolStarts(ev) :
              ev[StartIdx(ev, k)].toolName = run.tool_calls_data[k].name
        /\ \A j, k \in 1..ToolStarts(ev) :
              j # k => ev[StartIdx(ev, j)].toolCallId # ev[StartIdx(ev, k)].toolCallId

\* The TOOL_CALL_START at position i is followed by the TOOL_CALL_END of
\* the same toolCallId, with no TOOL_CALL_START in between.
ClosedAt(ev, i) ==
    \E j \in DOMAIN ev :
        /\ j > i
        /\ ev[j].type = "TOOL_CALL_END"
        /\ ev[j].toolCallId = ev[i].toolCallId
        /\ \A k \in (i + 1)..(j - 1) : ev[k].type # "TOOL_CALL_START"

\* The invocation started at position i is being executed.
InProgressAt(run, i) ==
    /\ run.pc \in {"tool", "delta"}
    /\ \A k \in DOMAIN run.events : k > i => run.events[k].type = "STATE_DELTA"

\* The invocation started at position i made the handler raise: RUN_ERROR
\* is the next event and no invocation is started after it.
FailedAt(ev, i) ==
    /\ i < Len(ev)
    /\ ev[i + 1].type = "RUN_ERROR"
    /\ \A k \in DOMAIN ev : k > i => ev[k].type # "TOOL_CALL_START"

\* The accumulator only grows at its end while the stream is read: an index
\* seen for the first time goes after the indices seen before, and the two
\* indices of one chunk in the order of its fragments.
AccumulatesInOrder(run, next) ==
    LET old == IndicesOf(run.tool_calls_data)
        new == IndicesOf(next.tool_calls_data)
    IN  (run.pc = "streaming" /\ next.pc = "streaming") =>
            /\ IsPrefix(old, new)
            /\ \A i, j \in DOMAIN new : i # j => new[i] # new[j]
            /\ Len(new) = Len(old) + 2 => new = old \o <<0, 1>>

\* C20 as claimed: the TOOL_CALL_START events follow the order in which the
\* indices first appeared, every TOOL_CALL_START is followed by the
\* TOOL_CALL_END of its toolCallId before the next TOOL_CALL_START, and the
\* toolCallIds of a run are pairwise distinct.
C20_EveryStartClosed ==
    [][ \A r \in RunIds :
            LET ev == runs'[r].events
            IN  /\ AccumulatesInOrder(runs[r], runs'[r])
                /\ StartsFollowAccumulator(runs'[r])
                /\ \A i \in DOMAIN ev :
                      ev[i].type = "TOOL_CALL_START" =>
                          ClosedAt(ev, i) \/ InProgressAt(runs'[r], i) ]_vars

(***************************************************************************)
(* C20, amended.  The TOOL_CALL_START events of a run follow the order in  *)
(* which the indices first appeared in the model stream and carry pairwise *)
(* distinct toolCallIds; each is followed, before any other                *)
(* TOOL_CALL_START, by the TOOL_CALL_END of its toolCallId, unless the     *)
(* tool handler raises on it: then RUN_ERROR follows it and no further     *)
(* invocation is started.                                                  *)
(***************************************************************************)
C20_StartsInOrderClosedOrFailed ==
    [][ \A r \in RunIds :
            LET ev == runs'[r].events
                data == runs'[r].tool_calls_data
            IN  /\ AccumulatesInOrder(runs[r], runs'[r])
                /\ StartsFollowAccumulator(runs'[r])
                /\ \A k \in 1..ToolStarts(ev) :
                      LET i == StartIdx(ev, k)
                      IN  \/ ClosedAt(ev, i)
                          \/ InProgressAt(runs'[r], i)
                          \/ /\ FailedAt(ev, i)
                             /\ JsonLoads(data[k].arguments).ok
                             /\ HandleToolCallRaises(data[k].name,
                                                     JsonLoads(data[k].arguments)) ]_vars

\* Index 1 appeared before index 0; both invocations were started in that
\* order and closed, and the run has ended.
C20_Witness ==
    LET ev == EventsOf(1)
    IN  /\ Exhausted(1)
        /\ IndicesOf(runs[1].tool_calls_data) = <<1, 0>>
        /\ ToolStarts(ev) = 2
        /\ ClosedAt(ev, StartIdx(ev, 1))
        /\ ClosedAt(ev, StartIdx(ev, 2))
        /\ ev[StartIdx(ev, 1)].toolName = runs[1].tool_calls_data[1].name

\* The argument buffer accumulated for index i, empty when i was not seen.
RECURSIVE BufferOf(_, _)
BufferOf(data, i) ==
    IF data = <<>> THEN <<>>
    ELSE IF Head(data).index = i THEN Head(data).arguments
    ELSE BufferOf(Tail(data), i)

\* The argument fragments of index i among fs, concatenated in order.
RECURSIVE ArgumentsFor(_, _)
ArgumentsFor(fs, i) ==
    IF fs = <<>> THEN <<>>
    ELSE (IF Head(fs).index = i THEN Head(fs).arguments ELSE <<>>)
         \o ArgumentsFor(Tail(fs), i)

Indices == {0, 1}

\* The step of run r reads the chunk c of the model stream.
Reads(r, c) ==
    /\ runs[r].pc = "streaming"
    /\ runs'[r].pc = "streaming"
    /\ chunks' = chunks + 1
    /\ runs'[r].full_content =
           runs[r].full_content \o (IF c.choices THEN c.content ELSE <<>>)
    /\ \A i \in Indices :
          BufferOf(runs'[r].tool_calls_data, i) =
              BufferOf(runs[r].tool_calls_data, i)
              \o (IF c.choices THEN ArgumentsFor(c.tool_calls, i) ELSE <<>>)

(***************************************************************************)
(* C21.  Every chunk extends the argument buffer of each index by exactly  *)
(* the fragments the chunk has for that index, in their order, and leaves  *)
(* the buffers of the other indices alone; once the stream has ended the   *)
(* buffers do not change; a buffer is decoded when its invocation is       *)
(* executed, after TEXT_MESSAGE_END, and each invocation is executed once: *)
(* the k-th execution follows the k-th TOOL_CALL_START and decides by      *)
(* JsonLoads of the k-th buffer.                                           *)
(***************************************************************************)
C21_BuffersConcatenateFragments ==
    [][ \A r \in RunIds :
          /\ (runs[r].pc = "streaming" /\ chunks' = chunks + 1)
             => \E c \in ModelChunks : Reads(r, c)
          /\ (runs[r].pc \in {"tools", "tool", "delta", "error", "final", "finished"})
             => runs'[r].tool_calls_data = runs[r].tool_calls_data
          /\ Executes(r)
             => /\ HasType(runs[r].events, "TEXT_MESSAGE_END")
                /\ ToolStarts(runs[r].events) = runs[r].tc
                /\ runs'[r].tc >= runs[r].tc
                /\ LastEvent(runs[r]).type = "TOOL_CALL_START"
                /\ InvalidJson(Invocation(r).arguments)
                   <=> (/\ LastEvent(runs'[r]).type = "TOOL_CALL_END"
                        /\ LastEvent(runs'[r]).result = InvalidJsonResult) ]_vars

\* The fragments of index 0 arrived in two chunks with a fragment of index
\* 1 in between; the run has executed both invocations.
C21_Witness ==
    /\ Exhausted(1)
    /\ IndicesOf(runs[1].tool_calls_data) = <<0, 1>>
    /\ BufferOf(runs[1].tool_calls_data, 0) = ArgsPasta
    /\ BufferOf(runs[1].tool_calls_data, 1) = ArgsEmptyObject
    /\ ToolStarts(EventsOf(1)) = 2
    /\ resets = 0
    /\ agents["t1"].recipe.title = "Pasta"

\* The messages a step adds at the end of thread t's history.
Appended(t) ==
    SubSeq(agents'[t].messages, Len(agents[t].messages) + 1, Len(agents'[t].messages))

(***************************************************************************)
(* C24.  Between two resets a thread's history only grows at its end:      *)
(* every step that is not a reset leaves the history a prefix of the       *)
(* history after it, whatever runs interleave on the thread.  A step adds  *)
(* at most one message; the steps of a run that add one are the step that  *)
(* yields the initial STATE_SNAPSHOT, which adds the run's user message,   *)
(* and the finalization after the tool loop, which adds the assistant      *)
(* message of the run's text; a run takes each of the two at most once.    *)
(***************************************************************************)
C24_HistoryAppendOnly ==
    [][ /\ \A t \in DOMAIN agents :
              resets' = resets =>
                  /\ IsPrefix(agents[t].messages, agents'[t].messages)
                  /\ Len(Appended(t)) <= 1
                  /\ Len(Appended(t)) = 1 =>
                        \E r \in RunIds :
                            /\ runs[r].thread = t
                            /\ runs'[r] # runs[r]
                            /\ \/ /\ runs[r].pc = "started"
                                  /\ runs'[r].pc = "baseline"
                                  /\ Appended(t) = <<UserMsg(runs[r].user_message)>>
                               \/ /\ runs[r].pc = "tools"
                                  /\ runs'[r].pc = "final"
                                  /\ runs[r].full_content # <<>>
                                  /\ Appended(t) = <<AssistantMsg(runs[r].full_content)>>
        /\ \A r \in RunIds :
              /\ runs'[r].pc = "started" => runs[r].pc \in {"created", "started"}
              /\ runs[r].pc \in {"baseline", "streaming", "tools", "tool", "delta", "error"}
                 => runs'[r].pc # "started"
              /\ runs[r].pc \in {"final", "finished", "done"}
                 => runs'[r].pc \in {"final", "finished", "done"}
              /\ (runs[r].pc = "started" /\ runs'[r].pc = "baseline")
                 => Len(Appended(runs[r].thread)) = 1 ]_vars

\* Two runs on one thread have both ended, each with text: the history
\* holds the two user messages and the two assistant messages.
C24_Witness ==
    /\ runs[1].pc = "done"
    /\ runs[2].pc = "done"
    /\ runs[1].thread = runs[2].thread
    /\ runs[1].thread \in DOMAIN agents
    /\ resets = 0
    /\ Len(agents[runs[1].thread].messages) = 4

\* The positions in ev of the events of the given type.
PositionsOf(ev, type) == {i \in DOMAIN ev : ev[i].type = type}

(***************************************************************************)
(* C27.  In every run there is at most one TEXT_MESSAGE_START; every       *)
(* TEXT_MESSAGE_CONTENT comes after it, before any TEXT_MESSAGE_END, with  *)
(* its messageId; and once RUN_FINISHED is emitted, the                    *)
(* TEXT_MESSAGE_START has been followed by a TEXT_MESSAGE_END of the same  *)
(* messageId, also when the model stream failed.                           *)
(* Violated: a stream that fails after TEXT_MESSAGE_START is reported by   *)
(* RUN_ERROR and the message is never ended.                               *)
(***************************************************************************)
C27_TextMessagePaired ==
    \A r \in RunIds :
        LET ev == EventsOf(r)
            starts == PositionsOf(ev, "TEXT_MESSAGE_START")
            ends == PositionsOf(ev, "TEXT_MESSAGE_END")
        IN  /\ Cardinality(starts) <= 1
            /\ Cardinality(ends) <= 1
            /\ \A j \in ends : \E i \in starts :
                  i < j /\ ev[j].messageId = ev[i].messageId
            /\ \A k \in PositionsOf(ev, "TEXT_MESSAGE_CONTENT") :
                  /\ \E i \in starts : i < k /\ ev[k].messageId = ev[i].messageId
                  /\ \A j \in ends : k < j
            /\ HasType(ev, "RUN_FINISHED") =>
                  \A i \in starts : \E j \in ends : i < j

\* The pairing in the runs whose model stream did not fail.
TextMessagePairedUnlessFailed ==
    \A r \in RunIds :
        LET ev == EventsOf(r)
            starts == PositionsOf(ev, "TEXT_MESSAGE_START")
            ends == PositionsOf(ev, "TEXT_MESSAGE_END")
        IN  /\ Cardinality(starts) <= 1
            /\ Cardinality(ends) <= 1
            /\ \A j \in ends : \E i \in starts :
                  i < j /\ ev[j].messageId = ev[i].messageId
            /\ \A k \in PositionsOf(ev, "TEXT_MESSAGE_CONTENT") :
                  /\ \E i \in starts : i < k /\ ev[k].messageId = ev[i].messageId
                  /\ \A j \in ends : k < j
            /\ (HasType(ev, "RUN_FINISHED") /\ starts # {} /\ ends = {}) =>
                  \E i \in ErrorsAt(ev) : CompletionFailedAt(ev, i)

NoUserBodies == {b \in RequestBodies : SelectSeq(b.messages, IsUser) = <<>>}

(***************************************************************************)
(* C30.  A run request without a user message starts no generator: the     *)
(* request is rejected, it yields no event then or later, and the state    *)
(* of every thread that existed is as before the request.                  *)
(***************************************************************************)
C30_NoUserMessageNoRun ==
    [][ \A r \in RunIds :
          /\ \A t \in Threads, b \in NoUserBodies :
                RunSharedState(r, t, b) =>
                    /\ runs'[r].pc = "rejected"
                    /\ runs'[r].events = <<>>
                    /\ \A u \in DOMAIN agents : agents'[u] = agents[u]
                    /\ \A q \in RunIds \ {r} : runs'[q] = runs[q]
          /\ runs[r].pc = "rejected" =>
                /\ runs'[r] = runs[r]
                /\ runs[r].events = <<>> ]_vars

\* A request without user message was made on a thread that has a recipe
\* and a history; both are as they were.
C30_Witness ==
    /\ runs[1].pc = "rejected"
    /\ runs[1].thread = "t1"
    /\ runs[1].events = <<>>
    /\ agents = PriorAgents

\* The thread of run r was reset after the run had stored its user message:
\* the history the initial STATE_SNAPSHOT carried is no longer the beginning
\* of the thread's history.
ResetSinceBaseline(r) ==
    /\ Len(EventsOf(r)) >= 2
    /\ ~IsPrefix(EventsOf(r)[2].state.messages, agents[runs[r].thread].messages)

(***************************************************************************)
(* C26.  When a thread is reset while a run on it is active, then once     *)
(* the run has ended the thread has an empty history and the empty recipe: *)
(* nothing the run wrote is left.                                          *)
(* Violated: the run goes on after the reset and writes its recipe and its *)
(* assistant message into the state the reset created.                     *)
(***************************************************************************)
C26_ResetLeavesNothingOfRun ==
    \A r \in RunIds :
        (Exhausted(r) /\ ResetSinceBaseline(r))
        => /\ agents[runs[r].thread].messages = <<>>
           /\ agents[runs[r].thread].recipe = EmptyRecipe

\* A send_message of the client has run to its end.
SendMessageFinished == sends > 0 /\ sse.pc = "idle"

(***************************************************************************)
(* C28.  Whenever send_message has finished, however the response ended,   *)
(* is_loading and is_streaming are false and the streaming buffer is       *)
(* empty.                                                                  *)
(* Violated: only RUN_FINISHED and the exception handler clear is_loading, *)
(* and only TEXT_MESSAGE_START and TEXT_MESSAGE_END empty the buffer.      *)
(***************************************************************************)
C28_FlagsClearedAtEnd ==
    SendMessageFinished =>
        /\ ~ui.is_loading
        /\ ~ui.is_streaming
        /\ ui.current_streaming_content = <<>>

\* What holds of the flags at the end: is_loading is cleared when
\* RUN_FINISHED was reduced or an exception reached the handler, and
\* is_streaming then too.
FlagsClearedAfterFinishOrException ==
    (SendMessageFinished
     /\ (sse.raised # "" \/ (sse.yielded # <<>> /\ LastOf(sse.yielded).type = "RUN_FINISHED")))
    => /\ ~ui.is_loading
       /\ ~ui.is_streaming

(***************************************************************************)
(* SpecWire: the client and the server joined by the response.  The        *)
(* client's k-th send_message is answered by run k on thread t1;           *)
(* event_stream writes "data: <json>\n\n" for every event the run yields,  *)
(* which the client reads as a data line and an empty line.                *)
(***************************************************************************)
RECURSIVE Frames(_)
Frames(ev) ==
    IF ev = <<>> THEN <<>>
    ELSE <<EventLine(Head(ev)), BlankLine>> \o Frames(Tail(ev))

\* The chunks of specification SpecWire.
WireChunks ==
    { Chunk(<<"Hola">>, <<>>),
      Chunk(<<>>, <<Fragment(0, "update_recipe", ArgsPasta)>>),
      Chunk(<<>>, <<Fragment(0, "update_recipe", ArgsArray)>>) }

\* The payload AGUIClient.run posts for the message just sent.
PayloadOfClient ==
    [messages |-> <<UserMsg(LastOf(ui.messages).content)>>, state |-> ClientSnapshot]

\* The request reaches run_shared_state.
WireRequest ==
    /\ sse.pc = "sending"
    /\ sends \in RunIds
    /\ RunSharedState(sends, "t1", PayloadOfClient)

\* The response is open.
WireConnect ==
    /\ sends \in RunIds
    /\ runs[sends].pc # "idle"
    /\ Connect

\* The client reads the next line the server has written.
WireDeliver ==
    LET fr == Frames(runs[sends].events)
    IN  /\ sends \in RunIds
        /\ Len(sse.received) < Len(fr)
        /\ ReadLine(fr[Len(sse.received) + 1])
        /\ UNCHANGED lines

\* The generator is exhausted and every line was read: the response ends.
WireCloses ==
    /\ sends \in RunIds
    /\ runs[sends].pc = "done"
    /\ Len(sse.received) = Len(Frames(runs[sends].events))
    /\ StreamCloses

NextWire ==
    \/ \E v \in Inputs : SetInput(v)
    \/ SendMessage
    \/ WireRequest
    \/ WireConnect
    \/ WireDeliver
    \/ WireCloses
    \/ \E r \in RunIds : Start(r)
    \/ \E r \in RunIds : Baseline(r)
    \/ \E r \in RunIds : OpenStream(r)
    \/ \E r \in RunIds : OpenFails(r)
    \/ \E r \in RunIds, c \in WireChunks : OnChunk(r, c, MaxThreadChunks)
    \/ \E r \in RunIds : StreamEnds(r)
    \/ \E r \in RunIds : StreamFails(r)
    \/ \E r \in RunIds : ToolStart(r)
    \/ \E r \in RunIds : ToolExecute(r)
    \/ \E r \in RunIds : ToolEnd(r)
    \/ \E r \in RunIds : Finalize(r)
    \/ \E r \in RunIds : FinalizeAfterError(r)
    \/ \E r \in RunIds : Finish(r)
    \/ \E r \in RunIds : Exhaust(r)

SpecWire == InitThreads /\ [][NextWire]_vars

\* The data lines of ls, in order.
DataLinesOf(ls) == SelectSeq(ls, LAMBDA l : l.data)

(***************************************************************************)
(* C22.  The response carries the run's events unchanged: the lines        *)
(* written hold one data line per event, in emission order, and the events *)
(* the client has yielded are, one for one and in the same order, the      *)
(* events the run emitted, with their types and their payloads, for as     *)
(* many data lines as the client has read; when the response has ended     *)
(* the client has yielded every event of the run.                          *)
(***************************************************************************)
C22_TransportPreservesEvents ==
    (sends \in RunIds /\ sse.pc \in {"reading", "idle"} /\ sse.raised = "") =>
        LET ev == EventsOf(sends)
            fr == Frames(ev)
        IN  /\ Len(DataLinesOf(fr)) = Len(ev)
            /\ IsPrefix(sse.received, fr)
            /\ Len(sse.yielded) = Len(DataLinesOf(sse.received))
            /\ Len(sse.yielded) <= Len(ev)
            /\ \A k \in DOMAIN sse.yielded :
                  /\ sse.yielded[k].data = ev[k]
                  /\ sse.yielded[k].type = ev[k].type
            /\ sse.pc = "idle" => Len(sse.yielded) = Len(ev)

\* The second response has ended; its run had text, a tool invocation and
\* a STATE_DELTA, and the client has yielded all its events.
C22_Witness ==
    /\ sends = 2
    /\ sse.pc = "idle"
    /\ runs[2].pc = "done"
    /\ Len(sse.yielded) = Len(EventsOf(2))
    /\ HasType(sse.yielded, "STATE_DELTA")
    /\ HasType(sse.yielded, "TEXT_MESSAGE_CONTENT")
    /\ LastOf(sse.yielded).type = "RUN_FINISHED"
    /\ ui.recipe.title = "Pasta"

(***************************************************************************)
(* SpecClose: the consumer of a run closes the connection.  The response   *)
(* stops iterating event_stream, and the generator of RecipeAgent.run,     *)
(* suspended at a yield, is closed: GeneratorExit is raised at that yield. *)
(* `except Exception` does not catch it; when the yield lies inside the    *)
(* try statement the finally clause runs, clears is_generating and         *)
(* reaches its own yield, whose value is not delivered.  The yields of     *)
(* RUN_STARTED and of the initial STATE_SNAPSHOT precede the try           *)
(* statement: closed there, the generator ends at once.                    *)
(***************************************************************************)
\* The suspension points inside the try statement, before its finally clause.
InsideTry == {"streaming", "tools", "tool", "delta", "error"}

\* The suspension points of the generator.
Suspended == {"started", "baseline", "final", "finished"} \cup InsideTry

Close(r) ==
    LET t == runs[r].thread
    IN  /\ runs[r].pc \in Suspended
        /\ agents' = IF runs[r].pc \in InsideTry
                     THEN [agents EXCEPT ![t].is_generating = FALSE]
                     ELSE agents
        /\ runs' = [runs EXCEPT ![r].pc = "closed"]
        /\ UNCHANGED <<chunks, resets, clientVars>>

\* The requests of specification SpecClose carry a user message.
UserBodies == RequestBodies \ NoUserBodies

\* A run of thread t1 is requested once the runs before it have ended.
RequestAfter(r) ==
    /\ \A q \in RunIds : q < r => runs[q].pc \in {"done", "closed"}
    /\ \E b \in UserBodies : RunSharedState(r, "t1", b)

NextClose ==
    \/ \E r \in RunIds : RequestAfter(r)
    \/ \E r \in RunIds : Close(r)
    \/ \E r \in RunIds : Start(r)
    \/ \E r \in RunIds : Baseline(r)
    \/ \E r \in RunIds : OpenStream(r)
    \/ \E r \in RunIds : OpenFails(r)
    \/ \E r \in RunIds, c \in WireChunks : OnChunk(r, c, MaxThreadChunks)
    \/ \E r \in RunIds : StreamEnds(r)
    \/ \E r \in RunIds : StreamFails(r)
    \/ \E r \in RunIds : ToolStart(r)
    \/ \E r \in RunIds : ToolExecute(r)
    \/ \E r \in RunIds : ToolEnd(r)
    \/ \E r \in RunIds : Finalize(r)
    \/ \E r \in RunIds : FinalizeAfterError(r)
    \/ \E r \in RunIds : Finish(r)
    \/ \E r \in RunIds : Exhaust(r)

SpecClose == InitThreads /\ [][NextClose]_vars

\* No run of thread t is in progress.
Quiet(t) ==
    \A q \in RunIds : runs[q].thread = t => runs[q].pc \in {"done", "closed", "rejected"}

(***************************************************************************)
(* C25.  A run whose consumer closed the connection while it was suspended *)
(* at an emission point leaves its thread usable: once no run of the       *)
(* thread is in progress is_generating is false, and a later run of the    *)
(* same thread that has ended starts with RUN_STARTED and ends with        *)
(* RUN_FINISHED.                                                           *)
(***************************************************************************)
C25_CloseLeavesThreadUsable ==
    \A r \in RunIds : runs[r].pc = "closed" =>
        /\ Quiet(runs[r].thread) => ~agents[runs[r].thread].is_generating
        /\ \A q \in RunIds :
              (q > r /\ runs[q].thread = runs[r].thread /\ runs[q].pc = "done") =>
                  /\ EventsOf(q)[1].type = "RUN_STARTED"
                  /\ LastOf(EventsOf(q)).type = "RUN_FINISHED"

\* What holds of the code: a closed run delivers no further event; closed
\* at a yield inside the try statement or its finally clause it leaves
\* is_generating false; a later run of the thread runs from RUN_STARTED to
\* RUN_FINISHED.
CloseInsideTryLeavesThreadUsable ==
    [][\A r \in RunIds :
          /\ runs[r].pc = "closed" => runs'[r] = runs[r]
          /\ (runs[r].pc \in Suspended \ {"started", "baseline"}
                /\ runs'[r].pc = "closed") =>
                  /\ ~agents'[runs[r].thread].is_generating
                  /\ EventsOf(r)' = EventsOf(r)
          /\ (r > 1 /\ runs[r - 1].pc = "closed" /\ runs'[r].pc = "done") =>
                  /\ EventsOf(r)'[1].type = "RUN_STARTED"
                  /\ LastOf(EventsOf(r)').type = "RUN_FINISHED"]_vars

\* The later run has ended after a run closed at its initial STATE_SNAPSHOT.
ClosedAtBaselineThenRun ==
    /\ runs[1].pc = "closed"
    /\ LastOf(EventsOf(1)).type = "STATE_SNAPSHOT"
    /\ Len(EventsOf(1)) = 2
    /\ runs[2].pc = "done"

====
